---------------------------- MODULE Spec2Model ----------------------------
(***************************************************************************)
(* Model of fiction::experiments::evaluate_fom_metrics                     *)
(* (experiments/standard_cell_design/fanout_fom.hpp): the worker-count     *)
(* derivation, the sequential and the concurrent evaluation path (shared   *)
(* atomic work index, per-worker contexts, progress queue guarded by a     *)
(* mutex and a condition variable), and the aggregation of the metric      *)
(* table into scores and a best index.                                     *)
(*                                                                         *)
(* The specifications share the variables:                                 *)
(*   Spec          one call of evaluate_fom_metrics, thread by thread      *)
(*                 (FairSpec and LiveSpec add fairness to it);             *)
(*   SpecThreads   the worker-count derivation as a function of its inputs *)
(*                 (hardware concurrency, FICTION_FOM_MAX_THREADS, N);     *)
(*   SpecAggregate the aggregation alone, over tables of sample records;   *)
(*   SpecCallers   compute_fom and the per-gate loop of                    *)
(*                 batch_fom_report_from_sqd.cpp, with the calls of        *)
(*                 evaluate_fom_metrics they make and the reports.         *)
(***************************************************************************)
EXTENDS Integers, Sequences, FiniteSets, TLC

Min2(a, b) == IF a <= b THEN a ELSE b
Max2(a, b) == IF a >= b THEN a ELSE b

(***************************************************************************)
(* Bounds of the model.                                                    *)
(***************************************************************************)
\* longest value of FICTION_FOM_MAX_THREADS drawn by SpecThreads
MaxEnvLen == 3
\* largest number of layouts handed to one evaluation in Spec
MaxLayouts == 3
\* largest std::thread::hardware_concurrency() drawn by Spec
MaxHardware == 3

(***************************************************************************)
(* std::size_t.  TLC's integers are 32 bits wide, so the 64-bit range is   *)
(* scaled down: SIZE_MAX stands for 2^64 - 1.  The only values of that    *)
(* magnitude come from strtoull (a negated or an overflowing number) and   *)
(* the code only compares them with 0 and with default_cap.                *)
(***************************************************************************)
SIZE_MAX == (2 ^ 30) - 1

\* fanout_fom.hpp:219  constexpr std::size_t default_cap = 128U;
default_cap == 128

(***************************************************************************)
(* std::getenv: a null pointer (unset) or a character string.              *)
(***************************************************************************)
EnvUnset == [set |-> FALSE, str |-> << >>]
EnvStr(s) == [set |-> TRUE, str |-> s]

Digits == {"0", "1", "2", "3", "4", "5", "6", "7", "8", "9"}
DigitVal(c) ==
    CASE c = "0" -> 0 [] c = "1" -> 1 [] c = "2" -> 2 [] c = "3" -> 3
      [] c = "4" -> 4 [] c = "5" -> 5 [] c = "6" -> 6 [] c = "7" -> 7
      [] c = "8" -> 8 [] c = "9" -> 9
IsSpace(c) == c = " "

RECURSIVE SkipSpace(_)
SkipSpace(s) ==
    IF s # << >> /\ IsSpace(Head(s)) THEN SkipSpace(Tail(s)) ELSE s

\* the digits at the front of s, accumulated in base 10; a value that does
\* not fit is reported as the largest value (ERANGE)
RECURSIVE AccDigits(_, _)
AccDigits(s, acc) ==
    IF s = << >> \/ Head(s) \notin Digits
    THEN acc
    ELSE LET d == DigitVal(Head(s))
         IN  IF acc > (SIZE_MAX - d) \div 10
             THEN AccDigits(Tail(s), SIZE_MAX)
             ELSE AccDigits(Tail(s), acc * 10 + d)

(***************************************************************************)
(* std::strtoull(s, nullptr, 10): white space is skipped, one sign is      *)
(* accepted, the longest run of digits is converted and whatever follows   *)
(* is left alone; without a digit the result is 0; a minus sign negates    *)
(* the value in the unsigned type.                                         *)
(***************************************************************************)
strtoull(s) ==
    LET t    == SkipSpace(s)
        neg  == t # << >> /\ Head(t) = "-"
        sgn  == t # << >> /\ Head(t) \in {"-", "+"}
        u    == IF sgn THEN Tail(t) ELSE t
        v    == AccDigits(u, 0)
    IN  IF u = << >> \/ Head(u) \notin Digits THEN 0
        ELSE IF neg /\ v # 0 /\ v # SIZE_MAX THEN SIZE_MAX - v + 1
        ELSE v

\* fanout_fom.hpp:216
HardwareThreads(hc) == IF hc = 0 THEN 1 ELSE hc

\* variant of CapByDefault: no default cap
CapUncapped(hardware_threads) == hardware_threads

\* fanout_fom.hpp:217-223
CapByDefault(hardware_threads) ==
    IF hardware_threads > default_cap THEN default_cap ELSE hardware_threads

\* fanout_fom.hpp:225-233
CapByEnv(thread_cap, env) ==
    IF env.set
    THEN LET parsed == strtoull(env.str)
         IN  IF parsed > 0
             THEN LET clamped_env == Max2(1, Min2(parsed, default_cap))
                  IN  Min2(thread_cap, clamped_env)
             ELSE thread_cap
    ELSE thread_cap

\* fanout_fom.hpp:235
CapFinal(thread_cap, hardware_threads) ==
    Max2(1, Min2(thread_cap, hardware_threads))

\* variant of ThreadCount: the number of layouts does not limit the workers
ThreadCountOfCap(hc, env, total) ==
    LET hardware_threads == HardwareThreads(hc)
    IN  CapFinal(CapByEnv(CapByDefault(hardware_threads), env), hardware_threads)

\* fanout_fom.hpp:215-237
ThreadCount(hc, env, total) ==
    LET hardware_threads == HardwareThreads(hc)
        thread_cap == CapFinal(CapByEnv(CapByDefault(hardware_threads), env),
                               hardware_threads)
    IN  Min2(thread_cap, total)


(***************************************************************************)
(* double.  Raw metrics are fixed-point integers (thousandths); the score  *)
(* chi is an exact fraction [n, d] in lowest terms with d > 0.             *)
(***************************************************************************)
RECURSIVE GCD(_, _)
GCD(a, b) == IF b = 0 THEN a ELSE GCD(b, a % b)
Abs(a) == IF a < 0 THEN -a ELSE a

Rat(n, d) ==
    LET g == GCD(Abs(n), Abs(d))
    IN  IF n = 0 THEN [n |-> 0, d |-> 1]
        ELSE IF d < 0 THEN [n |-> (-n) \div g, d |-> (-d) \div g]
        ELSE [n |-> n \div g, d |-> d \div g]
RatAdd(a, b) == Rat(a.n * b.d + b.n * a.d, a.d * b.d)
RatScale(w, a) == [n |-> w * a.n, d |-> a.d]
\* variant of RatLess: nothing is below the largest double
RatLessFinite(a, b) == b.d > 0 /\ a.n * b.d < b.n * a.d

\* variant of RatLess: an equal score counts as smaller
RatLessOrEqual(a, b) == a.n * b.d <= b.n * a.d
RatLess(a, b) == a.n * b.d < b.n * a.d
RatZero == [n |-> 0, d |-> 1]
\* std::numeric_limits<double>::max(): above every score (RatLess(x, DBL_MAX)
\* holds for every fraction x)
DBL_MAX == [n |-> 1, d |-> 0]

\* fanout_fom.hpp:51-59  struct fom_metrics, default member initialisers
DefaultMetrics ==
    [critical_temperature |-> 0, operational_domain_ratio |-> 0,
     defect_clearance_arsenic |-> 0, defect_clearance_vacancy |-> 0,
     band_bending_resilience_mV |-> 0, chi_value |-> RatZero]

(***************************************************************************)
(* The candidate layouts of Spec and the metric routines of the fiction    *)
(* library, which the header treats as opaque: each is a deterministic     *)
(* function of the layout that returns a value or throws.                  *)
(***************************************************************************)
Layouts == {"A", "B", "Bad"}

\* the layout whose metric computation throws
MetricThrows(layout) == layout = "Bad"

\* operational_domain_grid_search: <<operational, total>> parameter points
operational_domain_stats(layout) ==
    CASE layout = "A" -> <<1, 2>> [] layout = "B" -> <<4, 5>> [] OTHER -> <<0, 0>>
\* critical_temperature_gate_based, in K
critical_temperature_gate_based(layout) ==
    CASE layout = "A" -> 100000 [] layout = "B" -> 200000 [] OTHER -> 0
\* band_bending_resilience, in V
band_bending_resilience(layout) ==
    CASE layout = "A" -> 50 [] layout = "B" -> 80 [] OTHER -> 0
\* calculate_defect_clearance(...).defect_clearance_distance, in nm
defect_clearance_distance(layout, defect) ==
    CASE layout = "A" /\ defect = "ARSENIC" -> 2000
      [] layout = "A" /\ defect = "SI_VACANCY" -> 1000
      [] layout = "B" /\ defect = "ARSENIC" -> 1000
      [] layout = "B" /\ defect = "SI_VACANCY" -> 500
      [] OTHER -> 0

\* fanout_fom.hpp:128-150
initialize_context ==
    [sweep_dimensions |-> <<[min |-> 4000, max |-> 6000, step |-> 200],
                            [min |-> 4000, max |-> 6000, step |-> 200]>>,
     defects |-> <<"SI_VACANCY", "ARSENIC">>]

\* fanout_fom.hpp:179-198, the loop over ctx.defects
RECURSIVE ApplyDefects(_, _, _)
ApplyDefects(entry, layout, defects) ==
    IF defects = << >> THEN entry
    ELSE LET defect == Head(defects)
             clearance == defect_clearance_distance(layout, defect)
             next == IF defect = "SI_VACANCY"
                     THEN [entry EXCEPT !.defect_clearance_vacancy = clearance]
                     ELSE IF defect = "ARSENIC"
                     THEN [entry EXCEPT !.defect_clearance_arsenic = clearance]
                     ELSE entry
         IN  ApplyDefects(next, layout, Tail(defects))

\* fanout_fom.hpp:157-168: entry = {} and the operational domain ratio; this
\* is what the slot holds when a later routine throws
PartialMetrics(layout) ==
    LET st == operational_domain_stats(layout)
    IN  IF st[2] # 0
        THEN [DefaultMetrics EXCEPT !.operational_domain_ratio = (st[1] * 1000) \div st[2]]
        ELSE DefaultMetrics

\* fanout_fom.hpp:152-199
compute_with_context(ctx, layout) ==
    LET e1 == PartialMetrics(layout)
        e2 == [e1 EXCEPT !.critical_temperature = critical_temperature_gate_based(layout)]
        e3 == [e2 EXCEPT !.band_bending_resilience_mV = band_bending_resilience(layout) * 1000]
    IN  ApplyDefects(e3, layout, ctx.defects)

(***************************************************************************)
(* Aggregation, fanout_fom.hpp:340-405.  A table is a function from the    *)
(* indices 0 .. N-1 to fom_metrics.                                        *)
(***************************************************************************)
Size(table) == Cardinality(DOMAIN table)

\* fanout_fom.hpp:340-353: std::max folded over the column, from 0.0
RECURSIVE ColumnMaxFrom(_, _, _, _)
ColumnMaxFrom(table, field, i, acc) ==
    IF i >= Size(table) THEN acc
    ELSE ColumnMaxFrom(table, field, i + 1, Max2(acc, table[i][field]))
\* variant of ColumnMax: the value of the first record
ColumnFirst(table, field) == table[0][field]
ColumnMax(table, field) == ColumnMaxFrom(table, field, 0, 0)

Maxima(table) ==
    [max_ct              |-> ColumnMax(table, "critical_temperature"),
     max_op_domain_ratio |-> ColumnMax(table, "operational_domain_ratio"),
     max_clearance_ars   |-> ColumnMax(table, "defect_clearance_arsenic"),
     max_clearance_vac   |-> ColumnMax(table, "defect_clearance_vacancy"),
     max_bbr             |-> ColumnMax(table, "band_bending_resilience_mV")]

\* variant of safe_norm: the division is not guarded
UnguardedNorm(value, max_value) ==
    IF max_value = 0 THEN [n |-> value, d |-> 0] ELSE Rat(value, max_value)

\* fanout_fom.hpp:355-362.  Fixed-point values are multiples of 0.001, so
\* "max_value <= epsilon" is "max_value <= 0"
safe_norm(value, max_value) ==
    IF max_value <= 0 THEN RatZero ELSE Rat(value, max_value)

\* fanout_fom.hpp:364-368
w_ct == -1
w_op_domain == -1
w_defect_arsenic == 1
w_defect_vacancy == 1
w_bbr == -1

\* fanout_fom.hpp:377-385 is ChiOf; ChiAllPenalties is the variant in which
\* every normalised metric counts as a penalty
ChiAllPenalties(entry, mx) ==
    LET norm_ct  == safe_norm(entry.critical_temperature, mx.max_ct)
        norm_op  == safe_norm(entry.operational_domain_ratio, mx.max_op_domain_ratio)
        norm_ars == safe_norm(entry.defect_clearance_arsenic, mx.max_clearance_ars)
        norm_vac == safe_norm(entry.defect_clearance_vacancy, mx.max_clearance_vac)
        norm_bbr == safe_norm(entry.band_bending_resilience_mV, mx.max_bbr)
    IN  RatAdd(RatAdd(RatAdd(RatAdd(norm_ct, norm_op), norm_ars), norm_vac), norm_bbr)

ChiOf(entry, mx) ==
    LET norm_ct  == safe_norm(entry.critical_temperature, mx.max_ct)
        norm_op  == safe_norm(entry.operational_domain_ratio, mx.max_op_domain_ratio)
        norm_ars == safe_norm(entry.defect_clearance_arsenic, mx.max_clearance_ars)
        norm_vac == safe_norm(entry.defect_clearance_vacancy, mx.max_clearance_vac)
        norm_bbr == safe_norm(entry.band_bending_resilience_mV, mx.max_bbr)
    IN  RatAdd(RatAdd(RatAdd(RatAdd(RatScale(w_ct, norm_ct),
                                    RatScale(w_op_domain, norm_op)),
                             RatScale(w_defect_arsenic, norm_ars)),
                      RatScale(w_defect_vacancy, norm_vac)),
               RatScale(w_bbr, norm_bbr))

\* variant of ScoreFrom: best_chi follows the smallest score, best_idx stays
\* where it started
RECURSIVE ScoreFromStaleIndex(_, _, _)
ScoreFromStaleIndex(acc, mx, i) ==
    IF i >= Size(acc.metrics) THEN acc
    ELSE LET chi == ChiOf(acc.metrics[i], mx)
             tab == [acc.metrics EXCEPT ![i].chi_value = chi]
         IN  IF RatLess(chi, acc.best_chi)
             THEN ScoreFromStaleIndex([acc EXCEPT !.metrics = tab, !.best_chi = chi], mx, i + 1)
             ELSE ScoreFromStaleIndex([acc EXCEPT !.metrics = tab], mx, i + 1)

\* fanout_fom.hpp:370-400: the scoring loop from index i on; acc holds the
\* table, best_chi and best_idx
RECURSIVE ScoreFrom(_, _, _)
ScoreFrom(acc, mx, i) ==
    IF i >= Size(acc.metrics) THEN acc
    ELSE LET chi == ChiOf(acc.metrics[i], mx)
             tab == [acc.metrics EXCEPT ![i].chi_value = chi]
         IN  IF RatLess(chi, acc.best_chi)
             THEN ScoreFrom([metrics |-> tab, best_chi |-> chi, best_index |-> i], mx, i + 1)
             ELSE ScoreFrom([acc EXCEPT !.metrics = tab], mx, i + 1)

\* variant of Aggregate: the records are scored in the reverse order
AggregateReversed(table, mx) ==
    LET reversed == [i \in DOMAIN table |-> table[Size(table) - 1 - i]]
    IN  ScoreFrom([metrics |-> reversed, best_chi |-> DBL_MAX, best_index |-> 0], mx, 0)

\* fanout_fom.hpp:61-66 and 370-405
Aggregate(table, mx) ==
    ScoreFrom([metrics |-> table, best_chi |-> DBL_MAX, best_index |-> 0], mx, 0)

(***************************************************************************)
(* State of one call of evaluate_fom_metrics.                              *)
(***************************************************************************)
VARIABLES
    gate_designs,          \* the candidate layouts, a sequence (index i is element i + 1)
    verbose_console,
    hardware_concurrency,  \* std::thread::hardware_concurrency()
    env_value,             \* std::getenv("FICTION_FOM_MAX_THREADS")
    pc,                    \* position of the calling thread
    proc,                  \* "running", or "aborted" once std::terminate has run
    outcome,               \* what the caller gets: "pending", "nullopt", "result", "exception", "aborted"
    exception,             \* the exception in flight to the caller
    metrics,               \* std::vector<fom_metrics> metrics(total_layouts)
    thread_count,
    contexts,              \* std::vector<fom_thread_context> contexts(thread_count)
    seq_idx,               \* idx of the sequential loop
    next_index,            \* std::atomic_size_t next_index
    spawned,               \* t of the loop that creates the workers
    wpc,                   \* position of each worker thread
    widx,                  \* idx of each worker
    wctx,                  \* ctx of each worker: the element of contexts it refers to
    join_i,                \* position of the join loop
    progress_mutex,        \* "free" or "main"
    progress_queue,
    cv_waiting,            \* the calling thread is blocked in progress_cv.wait
    printed,
    c_idx,                 \* idx of the consumer loop
    c_entry,               \* entry of the consumer loop
    in_print,              \* the threads that are inside a call of fmt::print
    stdout_lines,          \* the progress lines printed so far: for each idx, the entries printed for it
    maxima,                \* max_ct .. max_bbr
    result,                \* the fom_evaluation_result handed to the caller
    claim_count,           \* history: how often each index below N was obtained from next_index
    call_count,            \* history: how often compute_metrics_for_index ran for each index
    write_count,           \* history: how often each slot was written by a metric computation
    failed,                \* history: the indices whose metric computation threw
    threw,                 \* history: the workers in which a metric computation threw
    enqueued,              \* history: how many indices were pushed to progress_queue
    enq_pos,               \* history: for each index pushed and not yet printed, its place in the order of the pushes
    save_report,           \* compute_fom: the argument save_report
    fs,                    \* what the file system does to create_directories and to the two std::ofstream
    drv_pc,                \* position of the caller of evaluate_fom_metrics: compute_fom or the batch driver
    drv_outcome,           \* what compute_fom returns, or how the batch driver ends
    table_file,            \* the rows written to the full table: <gate>_fom_report.txt or fom_table.csv
    best_file,             \* the rows written to the best-only report: <gate>_best_fom.txt or fom_best_only.csv
    console,               \* the messages of the caller, in the order printed
    groups,                \* batch driver: the layouts of each gate, in the order of the sorted gate names
    group_i,               \* batch driver: the position of the loop over gate_names
    total_processed

vars == <<gate_designs, verbose_console, hardware_concurrency, env_value, pc, proc,
          outcome, exception, metrics, thread_count, contexts, seq_idx, next_index,
          spawned, wpc, widx, wctx, join_i, progress_mutex, progress_queue, cv_waiting,
          printed, c_idx, c_entry, in_print, stdout_lines, maxima, result, claim_count,
          call_count, write_count, failed, threw, enqueued, enq_pos, save_report, fs,
          drv_pc, drv_outcome, table_file, best_file, console, groups, group_i,
          total_processed>>

\* the state of the caller, untouched while evaluate_fom_metrics runs
driver_vars == <<save_report, fs, drv_pc, drv_outcome, table_file, best_file, console,
                 groups, group_i, total_processed>>

\* what a call of evaluate_fom_metrics never changes: its arguments, the
\* machine, the environment and the state of its caller
inputs == <<gate_designs, verbose_console, hardware_concurrency, env_value, driver_vars>>
progress_vars == <<progress_mutex, progress_queue, cv_waiting, printed, c_idx, c_entry,
                   stdout_lines>>
consumer_vars == <<progress_vars, in_print>>
worker_vars == <<next_index, wpc, widx, wctx>>
history_vars == <<claim_count, call_count, write_count, failed, threw>>
caller_vars == <<proc, outcome, exception, result>>
order_vars == <<enqueued, enq_pos>>

total_layouts == Len(gate_designs)
Indices == 0 .. (total_layouts - 1)
Workers == 0 .. (MaxHardware - 1)
\* the calling thread, next to the workers 0, 1, ...
MainThread == 0 - 1
LayoutAt(idx) == gate_designs[idx + 1]
\* no candidate index
NoIndex == 0 - 1
NoException == [thrown |-> FALSE, index |-> NoIndex]
NoResult == [metrics |-> << >>, best_index |-> 0, best_chi |-> DBL_MAX]
NoMaxima == [max_ct |-> 0, max_op_domain_ratio |-> 0, max_clearance_ars |-> 0,
             max_clearance_vac |-> 0, max_bbr |-> 0]

\* the environment values drawn by Spec
EnvOfSpec == {EnvUnset}

\* the rows of a file nothing was written to: the ofstream was not opened
NoFile == << >>

\* a file system in which every directory can be created and every file opened
FsFine == [mkdir |-> "ok", open_full |-> TRUE, open_best |-> TRUE]

\* the caller has not ended yet
Pending == [kind |-> "pending", index |-> NoIndex]

\* evaluate_fom_metrics called on its own: no compute_fom and no batch driver
NoDriver ==
    /\ save_report = FALSE
    /\ fs = FsFine
    /\ drv_pc = "none"
    /\ drv_outcome = Pending
    /\ table_file = NoFile
    /\ best_file = NoFile
    /\ console = << >>
    /\ groups = << >>
    /\ group_i = 0
    /\ total_processed = 0

InitState ==
    /\ pc = "entry"
    /\ proc = "running"
    /\ outcome = "pending"
    /\ exception = NoException
    /\ metrics = << >>
    /\ thread_count = 0
    /\ contexts = << >>
    /\ seq_idx = 0
    /\ next_index = 0
    /\ spawned = 0
    /\ wpc = [t \in Workers |-> "unborn"]
    /\ widx = [t \in Workers |-> 0]
    /\ wctx = [t \in Workers |-> NoIndex]
    /\ join_i = 0
    /\ progress_mutex = "free"
    /\ progress_queue = << >>
    /\ cv_waiting = FALSE
    /\ printed = 0
    /\ c_idx = 0
    /\ c_entry = DefaultMetrics
    /\ in_print = {}
    /\ stdout_lines = << >>
    /\ maxima = NoMaxima
    /\ result = NoResult
    /\ claim_count = << >>
    /\ call_count = << >>
    /\ write_count = << >>
    /\ failed = {}
    /\ threw = {}
    /\ enqueued = 0
    /\ enq_pos = << >>

\* the candidate lists drawn by Spec: layouts "A" and "B" in turn, any of them
\* replaced by the layout whose metric computation throws
GoodLayout(i) == IF i % 2 = 1 THEN "A" ELSE "B"
DesignLists(n) ==
    {[i \in 1 .. n |-> IF i \in bad THEN "Bad" ELSE GoodLayout(i)] : bad \in SUBSET (1 .. n)}

Init ==
    /\ gate_designs \in UNION {DesignLists(n) : n \in 0 .. MaxLayouts}
    /\ verbose_console \in BOOLEAN
    /\ hardware_concurrency \in 0 .. MaxHardware
    /\ env_value \in EnvOfSpec
    /\ InitState
    /\ NoDriver

(***************************************************************************)
(* The calling thread up to the choice of the path.                        *)
(***************************************************************************)
\* variant of NoLayouts: no sequence counts as empty
NeverEmpty(designs) == FALSE

\* fanout_fom.hpp:88: gate_designs.empty()
NoLayouts(designs) == designs = << >>

\* fanout_fom.hpp:88-95
ReturnEmpty ==
    /\ proc = "running" /\ pc = "entry"
    /\ NoLayouts(gate_designs)
    /\ outcome' = "nullopt"
    /\ pc' = "returned"
    /\ UNCHANGED <<order_vars, inputs, proc, exception, result, metrics, thread_count, contexts,
                   seq_idx, spawned, join_i, maxima, worker_vars, consumer_vars,
                   history_vars>>

\* variant of SequentialPath: two workers are not worth the threads
SequentialPathUpToTwo(tc) == tc <= 2

\* fanout_fom.hpp:251: the test that chooses between the two paths
SequentialPath(tc) == tc <= 1

\* fanout_fom.hpp:97-98, 215-249 and the test of line 251
Setup ==
    /\ proc = "running" /\ pc = "entry"
    /\ ~NoLayouts(gate_designs)
    /\ LET tc == ThreadCount(hardware_concurrency, env_value, total_layouts)
       IN  /\ thread_count' = tc
           /\ contexts' = [t \in 0 .. (tc - 1) |-> initialize_context]
           /\ pc' = IF SequentialPath(tc) THEN "seq" ELSE "spawn"
    /\ metrics' = [i \in Indices |-> DefaultMetrics]
    /\ claim_count' = [i \in Indices |-> 0]
    /\ call_count' = [i \in Indices |-> 0]
    /\ write_count' = [i \in Indices |-> 0]
    /\ stdout_lines' = [i \in Indices |-> << >>]
    /\ enq_pos' = [i \in Indices |-> 0]
    /\ UNCHANGED <<enqueued, in_print, inputs, caller_vars, seq_idx, spawned, join_i, maxima, worker_vars,
                   progress_mutex, progress_queue, cv_waiting, printed, c_idx, c_entry,
                   failed, threw>>

(***************************************************************************)
(* compute_metrics_for_index(idx, ctx, metrics[idx]), fanout_fom.hpp:201-  *)
(* 213, called at lines 256 and 303 with contexts[c]. *)
(***************************************************************************)
\* variant of SlotFor: every call gets the first slot
SlotFirst(idx) == 0

\* variant of SlotFor: the slots are filled in the order of completion
SlotByCompletion(idx) == Cardinality({i \in DOMAIN write_count : write_count[i] > 0})

\* the slot handed to the call: metrics[idx]
SlotFor(idx) == idx

Invoke(c, idx) ==
    /\ metrics' = [metrics EXCEPT ![SlotFor(idx)] = compute_with_context(contexts[c], LayoutAt(idx))]
    /\ call_count' = [call_count EXCEPT ![idx] = @ + 1]
    /\ write_count' = [write_count EXCEPT ![SlotFor(idx)] = @ + 1]
    /\ UNCHANGED failed

\* the same call when a metric routine throws: the slot was reset and partly
\* written before
InvokeThrows(c, idx) ==
    /\ metrics' = [metrics EXCEPT ![SlotFor(idx)] = PartialMetrics(LayoutAt(idx))]
    /\ call_count' = [call_count EXCEPT ![idx] = @ + 1]
    /\ write_count' = [write_count EXCEPT ![SlotFor(idx)] = @ + 1]
    /\ failed' = failed \cup {idx}

(***************************************************************************)
(* The sequential path, fanout_fom.hpp:251-268.                            *)
(***************************************************************************)
\* the loop header: ++idx and idx < total_layouts
SeqAdvance ==
    /\ seq_idx' = seq_idx + 1
    /\ pc' = IF seq_idx + 1 < total_layouts THEN "seq" ELSE "agg_max"

\* a thread enters and leaves a call of fmt::print
EnterPrint(th) == in_print' = in_print \cup {th}
LeavePrint(th) == in_print' = in_print \ {th}

\* line 256, and line 257 when verbose_console is false
SeqCompute ==
    /\ proc = "running" /\ pc = "seq"
    /\ ~MetricThrows(LayoutAt(seq_idx))
    /\ Invoke(0, seq_idx)
    /\ IF verbose_console
       THEN pc' = "seq_print" /\ EnterPrint(MainThread) /\ UNCHANGED seq_idx
       ELSE SeqAdvance /\ UNCHANGED in_print
    /\ UNCHANGED <<order_vars, inputs, caller_vars, thread_count, contexts, spawned, join_i, maxima,
                   worker_vars, progress_vars, claim_count, threw>>

\* line 256 when the metric computation throws: nothing in the function
\* catches, the exception leaves evaluate_fom_metrics as the routine threw it
SeqThrow ==
    /\ proc = "running" /\ pc = "seq"
    /\ MetricThrows(LayoutAt(seq_idx))
    /\ InvokeThrows(0, seq_idx)
    /\ exception' = [thrown |-> TRUE, index |-> NoIndex]
    /\ outcome' = "exception"
    /\ pc' = "unwound"
    /\ UNCHANGED <<order_vars, inputs, proc, result, thread_count, contexts, seq_idx, spawned, join_i,
                   maxima, worker_vars, consumer_vars, claim_count, threw>>

\* lines 257-266
SeqPrint ==
    /\ proc = "running" /\ pc = "seq_print"
    /\ stdout_lines' = [stdout_lines EXCEPT ![seq_idx] = Append(@, metrics[seq_idx])]
    /\ LeavePrint(MainThread)
    /\ SeqAdvance
    /\ UNCHANGED <<order_vars, inputs, caller_vars, metrics, thread_count, contexts, spawned, join_i,
                   maxima, worker_vars, progress_mutex, progress_queue, cv_waiting,
                   printed, c_idx, c_entry, history_vars>>

(***************************************************************************)
(* The concurrent path, fanout_fom.hpp:269-338: the worker threads.        *)
(***************************************************************************)
\* variant of ContextOf: every worker refers to the first context
ContextShared(t) == 0

\* line 294: auto& ctx = contexts[t]
ContextOf(t) == t

\* lines 289-307, one iteration of the loop that creates the workers, and the
\* test of line 309 after the last one
SpawnWorker ==
    /\ proc = "running" /\ pc = "spawn"
    /\ wpc' = [wpc EXCEPT ![spawned] = "claim"]
    /\ wctx' = [wctx EXCEPT ![spawned] = ContextOf(spawned)]
    /\ spawned' = spawned + 1
    /\ pc' = IF spawned + 1 < thread_count THEN "spawn"
             ELSE IF verbose_console THEN "c_lock" ELSE "join"
    /\ UNCHANGED <<order_vars, inputs, caller_vars, metrics, thread_count, contexts, seq_idx, join_i,
                   maxima, next_index, widx, consumer_vars, history_vars>>

\* variant of FetchAdd: the counter advances by two
FetchAddSkip(value) == value + 2

\* line 297: the value next_index holds after fetch_add(1)
FetchAdd(value) == value + 1

\* variant of Exhausted: the test is off by one
ExhaustedOffByOne(idx) == idx + 1 >= total_layouts

\* line 298
Exhausted(idx) == idx >= total_layouts

\* lines 297-301: one atomic read-modify-write and the test of its result
WorkerClaim(t) ==
    /\ proc = "running" /\ wpc[t] = "claim"
    /\ LET idx == next_index
       IN  /\ next_index' = FetchAdd(next_index)
           /\ IF Exhausted(idx)
              THEN wpc' = [wpc EXCEPT ![t] = "done"] /\ UNCHANGED <<widx, claim_count>>
              ELSE /\ wpc' = [wpc EXCEPT ![t] = "compute"]
                   /\ widx' = [widx EXCEPT ![t] = idx]
                   /\ claim_count' = IF idx \in DOMAIN claim_count
                                     THEN [claim_count EXCEPT ![idx] = @ + 1]
                                     ELSE claim_count
    /\ UNCHANGED <<order_vars, inputs, caller_vars, pc, wctx, metrics, thread_count, contexts, seq_idx,
                   spawned, join_i, maxima, consumer_vars, call_count, write_count,
                   failed, threw>>

\* line 303, the call returns
WorkerCompute(t) ==
    /\ proc = "running" /\ wpc[t] = "compute"
    /\ ~MetricThrows(LayoutAt(widx[t]))
    /\ Invoke(wctx[t], widx[t])
    /\ wpc' = [wpc EXCEPT ![t] = "notify"]
    /\ UNCHANGED <<order_vars, inputs, caller_vars, pc, wctx, thread_count, contexts, seq_idx, spawned,
                   join_i, maxima, next_index, widx, consumer_vars, claim_count, threw>>

\* variant of WorkerThrow: the worker catches the exception and returns
WorkerSwallow(t) ==
    /\ proc = "running" /\ wpc[t] = "compute"
    /\ MetricThrows(LayoutAt(widx[t]))
    /\ InvokeThrows(wctx[t], widx[t])
    /\ wpc' = [wpc EXCEPT ![t] = "done"]
    /\ threw' = threw \cup {t}
    /\ UNCHANGED <<order_vars, inputs, caller_vars, pc, wctx, thread_count, contexts, seq_idx, spawned,
                   join_i, maxima, next_index, widx, consumer_vars, claim_count>>

\* variant of WorkerThrow: the worker catches the exception and goes on with
\* the next index
WorkerCatchAndContinue(t) ==
    /\ proc = "running" /\ wpc[t] = "compute"
    /\ MetricThrows(LayoutAt(widx[t]))
    /\ InvokeThrows(wctx[t], widx[t])
    /\ wpc' = [wpc EXCEPT ![t] = "claim"]
    /\ threw' = threw \cup {t}
    /\ UNCHANGED <<order_vars, inputs, caller_vars, pc, wctx, thread_count, contexts, seq_idx, spawned,
                   join_i, maxima, next_index, widx, consumer_vars, claim_count>>

\* line 303, the call throws: the exception leaves the thread's function
WorkerThrow(t) ==
    /\ proc = "running" /\ wpc[t] = "compute"
    /\ MetricThrows(LayoutAt(widx[t]))
    /\ InvokeThrows(wctx[t], widx[t])
    /\ wpc' = [wpc EXCEPT ![t] = "throwing"]
    /\ threw' = threw \cup {t}
    /\ UNCHANGED <<order_vars, inputs, caller_vars, pc, wctx, thread_count, contexts, seq_idx, spawned,
                   join_i, maxima, next_index, widx, consumer_vars, claim_count>>

\* an exception that leaves the function of a std::thread calls
\* std::terminate, which ends the process and every thread in it
Terminate ==
    /\ proc = "running"
    /\ \E t \in Workers : wpc[t] = "throwing"
    /\ proc' = "aborted"
    /\ outcome' = "aborted"
    /\ UNCHANGED <<order_vars, inputs, exception, result, pc, metrics, thread_count, contexts,
                   seq_idx, spawned, join_i, maxima, worker_vars, consumer_vars,
                   history_vars>>

\* variant of WorkerNotifySkip: the index is pushed whatever verbose_console is
WorkerNotifyUnguarded(t) ==
    /\ proc = "running" /\ wpc[t] = "notify"
    /\ ~verbose_console
    /\ progress_mutex = "free"
    /\ progress_queue' = Append(progress_queue, widx[t])
    /\ wpc' = [wpc EXCEPT ![t] = "signal"]
    /\ UNCHANGED <<order_vars, in_print, inputs, caller_vars, pc, wctx, metrics,
                   thread_count, contexts, seq_idx, spawned, join_i, maxima, next_index,
                   widx, progress_mutex, cv_waiting, printed, c_idx, c_entry,
                   stdout_lines, history_vars>>

\* lines 278-281: notify_progress without verbose_console
WorkerNotifySkip(t) ==
    /\ proc = "running" /\ wpc[t] = "notify"
    /\ ~verbose_console
    /\ wpc' = [wpc EXCEPT ![t] = "claim"]
    /\ widx' = [widx EXCEPT ![t] = 0]
    /\ UNCHANGED <<order_vars, inputs, caller_vars, pc, wctx, metrics, thread_count, contexts, seq_idx,
                   spawned, join_i, maxima, next_index, consumer_vars, history_vars>>

\* variant of WorkerNotifyPush: the worker also prints the progress line
WorkerNotifyPrints(t) ==
    /\ proc = "running" /\ wpc[t] = "notify"
    /\ verbose_console
    /\ progress_mutex = "free"
    /\ progress_queue' = Append(progress_queue, widx[t])
    /\ EnterPrint(t)
    /\ wpc' = [wpc EXCEPT ![t] = "signal"]
    /\ UNCHANGED <<order_vars, inputs, caller_vars, pc, wctx, metrics, thread_count, contexts, seq_idx,
                   spawned, join_i, maxima, next_index, widx, progress_mutex, cv_waiting,
                   printed, c_idx, c_entry, stdout_lines, history_vars>>

\* variant of WorkerNotifyPush: the index is pushed twice
WorkerNotifyPushTwice(t) ==
    /\ proc = "running" /\ wpc[t] = "notify"
    /\ verbose_console
    /\ progress_mutex = "free"
    /\ progress_queue' = Append(Append(progress_queue, widx[t]), widx[t])
    /\ wpc' = [wpc EXCEPT ![t] = "signal"]
    /\ UNCHANGED <<order_vars, in_print, inputs, caller_vars, pc, wctx, metrics, thread_count, contexts, seq_idx,
                   spawned, join_i, maxima, next_index, widx, progress_mutex, cv_waiting,
                   printed, c_idx, c_entry, stdout_lines, history_vars>>

\* lines 282-285: the lock_guard block
WorkerNotifyPush(t) ==
    /\ proc = "running" /\ wpc[t] = "notify"
    /\ verbose_console
    /\ progress_mutex = "free"
    /\ progress_queue' = Append(progress_queue, widx[t])
    /\ enqueued' = enqueued + 1
    /\ enq_pos' = [enq_pos EXCEPT ![widx[t]] = enqueued + 1]
    /\ wpc' = [wpc EXCEPT ![t] = "signal"]
    /\ UNCHANGED <<in_print, inputs, caller_vars, pc, wctx, metrics, thread_count, contexts, seq_idx,
                   spawned, join_i, maxima, next_index, widx, progress_mutex, cv_waiting,
                   printed, c_idx, c_entry, stdout_lines, history_vars>>

\* variant of WorkerSignal: the condition variable is not notified
WorkerNoSignal(t) ==
    /\ proc = "running" /\ wpc[t] = "signal"
    /\ wpc' = [wpc EXCEPT ![t] = "claim"]
    /\ widx' = [widx EXCEPT ![t] = 0]
    /\ UNCHANGED <<order_vars, inputs, caller_vars, pc, wctx, metrics, thread_count,
                   contexts, seq_idx, spawned, join_i, maxima, next_index,
                   consumer_vars, history_vars>>

\* line 286: progress_cv.notify_one() unblocks the waiting thread, if any;
\* the iteration ends and idx goes out of scope
WorkerSignal(t) ==
    /\ proc = "running" /\ wpc[t] = "signal"
    /\ cv_waiting' = FALSE
    /\ wpc' = [wpc EXCEPT ![t] = "claim"]
    /\ widx' = [widx EXCEPT ![t] = 0]
    /\ UNCHANGED <<order_vars, in_print, inputs, caller_vars, pc, wctx, metrics, thread_count, contexts, seq_idx,
                   spawned, join_i, maxima, next_index, progress_mutex,
                   progress_queue, printed, c_idx, c_entry, stdout_lines, history_vars>>

Worker(t) ==
    \/ WorkerClaim(t)
    \/ WorkerCompute(t)
    \/ WorkerThrow(t)
    \/ WorkerNotifySkip(t)
    \/ WorkerNotifyPush(t)
    \/ WorkerSignal(t)

(***************************************************************************)
(* The concurrent path: the progress consumer on the calling thread,       *)
(* fanout_fom.hpp:309-332, and the join loop, lines 334-337.               *)
(***************************************************************************)
main_frame == <<inputs, caller_vars, metrics, thread_count, contexts, seq_idx, spawned,
                maxima, worker_vars, history_vars>>

\* lines 311-312
ConsumerLock ==
    /\ proc = "running" /\ pc = "c_lock"
    /\ progress_mutex = "free"
    /\ progress_mutex' = "main"
    /\ printed' = 0
    /\ pc' = "c_top"
    /\ UNCHANGED <<order_vars, in_print, main_frame, join_i, progress_queue, cv_waiting, c_idx, c_entry,
                   stdout_lines>>

\* line 313 fails, line 331
ConsumerExit ==
    /\ proc = "running" /\ pc = "c_top"
    /\ ~(printed < total_layouts)
    /\ progress_mutex' = "free"
    /\ pc' = "join"
    /\ UNCHANGED <<order_vars, in_print, main_frame, join_i, progress_queue, cv_waiting, printed, c_idx,
                   c_entry, stdout_lines>>

\* line 315 with the queue empty: wait releases the mutex and blocks
ConsumerBlock ==
    /\ proc = "running" /\ pc = "c_top"
    /\ printed < total_layouts
    /\ progress_queue = << >>
    /\ progress_mutex' = "free"
    /\ cv_waiting' = TRUE
    /\ pc' = "c_wait"
    /\ UNCHANGED <<order_vars, in_print, main_frame, join_i, progress_queue, printed, c_idx, c_entry,
                   stdout_lines>>

\* a condition variable may unblock a waiting thread without a notification
ConsumerSpuriousWake ==
    /\ proc = "running" /\ pc = "c_wait"
    /\ cv_waiting
    /\ cv_waiting' = FALSE
    /\ UNCHANGED <<order_vars, in_print, main_frame, pc, join_i, progress_mutex, progress_queue, printed,
                   c_idx, c_entry, stdout_lines>>

\* line 315: the unblocked thread takes the mutex again and tests the
\* predicate
ConsumerWake ==
    /\ proc = "running" /\ pc = "c_wait"
    /\ ~cv_waiting
    /\ progress_mutex = "free"
    /\ progress_mutex' = "main"
    /\ pc' = "c_top"
    /\ UNCHANGED <<order_vars, in_print, main_frame, join_i, progress_queue, cv_waiting, printed, c_idx,
                   c_entry, stdout_lines>>

\* variant of Dequeue: the newest index is taken
DequeueBack(q) == [idx |-> q[Len(q)], rest |-> SubSeq(q, 1, Len(q) - 1)]

\* lines 318-319: progress_queue.front() and progress_queue.pop()
Dequeue(q) == [idx |-> Head(q), rest |-> Tail(q)]

\* lines 315-320 with the queue not empty
ConsumerPop ==
    /\ proc = "running"
    /\ pc = "c_drain" \/ (pc = "c_top" /\ printed < total_layouts)
    /\ progress_queue # << >>
    /\ c_idx' = Dequeue(progress_queue).idx
    /\ progress_queue' = Dequeue(progress_queue).rest
    /\ printed' = printed + 1
    /\ pc' = "c_copy"
    /\ UNCHANGED <<order_vars, in_print, main_frame, join_i, progress_mutex, cv_waiting, c_entry, stdout_lines>>

\* line 316 fails: back to line 313
ConsumerDrained ==
    /\ proc = "running" /\ pc = "c_drain"
    /\ progress_queue = << >>
    /\ pc' = "c_top"
    /\ UNCHANGED <<order_vars, main_frame, join_i, consumer_vars>>

\* variant of ConsumerCopy: entry is declared and never assigned
ConsumerDefaultEntry ==
    /\ proc = "running" /\ pc = "c_copy"
    /\ c_entry' = DefaultMetrics
    /\ progress_mutex' = "free"
    /\ EnterPrint(MainThread)
    /\ pc' = "c_print"
    /\ UNCHANGED <<order_vars, main_frame, join_i, progress_queue, cv_waiting, printed, c_idx,
                   stdout_lines>>

\* variant of ConsumerCopy: the record is moved out of the table
ConsumerMove ==
    /\ proc = "running" /\ pc = "c_copy"
    /\ c_entry' = metrics[c_idx]
    /\ metrics' = [metrics EXCEPT ![c_idx] = DefaultMetrics]
    /\ progress_mutex' = "free"
    /\ EnterPrint(MainThread)
    /\ pc' = "c_print"
    /\ UNCHANGED <<order_vars, inputs, caller_vars, thread_count, contexts, seq_idx, spawned,
                   maxima, worker_vars, history_vars, join_i, progress_queue, cv_waiting,
                   printed, c_idx, stdout_lines>>

\* lines 321-323: the copy, the unlock and the entry into fmt::print
ConsumerCopy ==
    /\ proc = "running" /\ pc = "c_copy"
    /\ c_entry' = metrics[c_idx]
    /\ progress_mutex' = "free"
    /\ EnterPrint(MainThread)
    /\ pc' = "c_print"
    /\ UNCHANGED <<order_vars, main_frame, join_i, progress_queue, cv_waiting, printed, c_idx,
                   stdout_lines>>

\* lines 323-327: fmt::print has written the line and returns
ConsumerPrint ==
    /\ proc = "running" /\ pc = "c_print"
    /\ stdout_lines' = [stdout_lines EXCEPT ![c_idx] = Append(@, c_entry)]
    /\ LeavePrint(MainThread)
    /\ enq_pos' = [enq_pos EXCEPT ![c_idx] = 0]
    /\ pc' = "c_relock"
    /\ UNCHANGED <<enqueued, main_frame, join_i, progress_mutex, progress_queue, cv_waiting,
                   printed, c_idx, c_entry>>

\* line 328; the iteration ends, idx and entry go out of scope
ConsumerRelock ==
    /\ proc = "running" /\ pc = "c_relock"
    /\ progress_mutex = "free"
    /\ progress_mutex' = "main"
    /\ c_idx' = 0
    /\ c_entry' = DefaultMetrics
    /\ pc' = "c_drain"
    /\ UNCHANGED <<order_vars, in_print, main_frame, join_i, progress_queue, cv_waiting, printed, stdout_lines>>

\* variant of JoinWorker: only the first worker is joined
JoinFirstOnly ==
    /\ proc = "running" /\ pc = "join"
    /\ wpc[join_i] = "done"
    /\ join_i' = join_i + 1
    /\ pc' = "agg_max"
    /\ UNCHANGED <<order_vars, main_frame, consumer_vars>>

\* variant of JoinWorker: the loop does not wait for the worker
JoinWithoutWaiting ==
    /\ proc = "running" /\ pc = "join"
    /\ join_i' = join_i + 1
    /\ pc' = IF join_i + 1 < thread_count THEN "join" ELSE "agg_max"
    /\ UNCHANGED <<order_vars, main_frame, consumer_vars>>

\* lines 334-337: join returns once the worker's function has returned
JoinWorker ==
    /\ proc = "running" /\ pc = "join"
    /\ wpc[join_i] = "done"
    /\ join_i' = join_i + 1
    /\ pc' = IF join_i + 1 < thread_count THEN "join" ELSE "agg_max"
    /\ UNCHANGED <<order_vars, main_frame, consumer_vars>>

(***************************************************************************)
(* Aggregation and return, fanout_fom.hpp:340-414.                         *)
(***************************************************************************)
\* lines 340-353
ComputeMaxima ==
    /\ proc = "running" /\ pc = "agg_max"
    /\ maxima' = Maxima(metrics)
    /\ pc' = "agg_score"
    /\ UNCHANGED <<order_vars, inputs, caller_vars, metrics, thread_count, contexts, seq_idx, spawned,
                   join_i, worker_vars, consumer_vars, history_vars>>

\* lines 355-414: the scoring loop, the result and the return
ScoreAndReturn ==
    /\ proc = "running" /\ pc = "agg_score"
    /\ result' = Aggregate(metrics, maxima)
    /\ metrics' = << >>
    /\ outcome' = "result"
    /\ pc' = "returned"
    /\ UNCHANGED <<order_vars, inputs, proc, exception, thread_count, contexts, seq_idx, spawned,
                   join_i, maxima, worker_vars, consumer_vars, history_vars>>

\* the steps the calling thread takes by itself up to the scoring loop
MainBeforeScore ==
    \/ ReturnEmpty
    \/ Setup
    \/ SeqCompute
    \/ SeqThrow
    \/ SeqPrint
    \/ SpawnWorker
    \/ ConsumerLock
    \/ ConsumerExit
    \/ ConsumerBlock
    \/ ConsumerWake
    \/ ConsumerPop
    \/ ConsumerDrained
    \/ ConsumerCopy
    \/ ConsumerPrint
    \/ ConsumerRelock
    \/ JoinWorker
    \/ ComputeMaxima

\* the steps of the calling thread: those it takes by itself and the wake-up
\* that the condition variable may produce without a notification
Main ==
    \/ MainBeforeScore
    \/ ScoreAndReturn
    \/ ConsumerSpuriousWake

Next ==
    \/ Main
    \/ \E t \in Workers : Worker(t)
    \/ Terminate

Spec == Init /\ [][Next]_vars

\* the runtime calls std::terminate once an exception has left a thread's
\* function
FairSpec == Spec /\ WF_vars(Terminate)

\* ScoreAndReturn can be taken
ScoreEnabled == proc = "running" /\ pc = "agg_score"

\* fair scheduling: a thread that can take a step takes one, and a worker
\* that can take the mutex again and again gets it; no wake-up without a
\* notification is ever guaranteed.  The calling thread does not stay in
\* front of the scoring loop for ever, which is WF_vars(ScoreAndReturn).
LiveSpec ==
    /\ Spec
    /\ WF_vars(MainBeforeScore)
    /\ []<>(~ScoreEnabled)
    /\ \A t \in Workers : SF_vars(Worker(t))
    /\ WF_vars(Terminate)

(***************************************************************************)
(* SpecThreads: the worker-count derivation of lines 215-237 applied to    *)
(* hardware concurrencies on both sides of default_cap, to environment     *)
(* strings over EnvChars and to layout counts on both sides of default_cap.*)
(***************************************************************************)
EnvChars == {"0", "1", "4", "9", "-", "+", " ", "x"}
EnvStrings == UNION {[1 .. n -> EnvChars] : n \in 0 .. MaxEnvLen}
HardwareOfThreads == {0, 1, 2, 8, 128, 129, 200}
LayoutCounts == {1, 2, 5, 10, 127, 128, 129, 150}

InitThreads ==
    /\ \E n \in LayoutCounts : gate_designs = [i \in 1 .. n |-> GoodLayout(i)]
    /\ verbose_console = FALSE
    /\ hardware_concurrency \in HardwareOfThreads
    /\ env_value \in {EnvUnset} \cup {EnvStr(s) : s \in EnvStrings}
    /\ InitState
    /\ NoDriver

\* lines 215-237 alone
DeriveThreadCount ==
    /\ pc = "entry"
    /\ gate_designs # << >>
    /\ thread_count' = ThreadCount(hardware_concurrency, env_value, total_layouts)
    /\ pc' = "threads"
    /\ UNCHANGED <<order_vars, inputs, caller_vars, metrics, contexts, seq_idx, spawned, join_i, maxima,
                   worker_vars, consumer_vars, history_vars>>

\* lines 245-249 alone: one context for each worker
DeriveContexts ==
    /\ pc = "threads"
    /\ contexts' = [t \in 0 .. (thread_count - 1) |-> initialize_context]
    /\ pc' = "contexts"
    /\ UNCHANGED <<order_vars, inputs, caller_vars, metrics, thread_count, seq_idx, spawned,
                   join_i, maxima, worker_vars, consumer_vars, history_vars>>

NextThreads ==
    \/ DeriveThreadCount
    \/ DeriveContexts

SpecThreads == InitThreads /\ [][NextThreads]_vars

(***************************************************************************)
(* The aggregation alone, fanout_fom.hpp:340-414, entered at line 340 with *)
(* a table as the metric routines may have filled it: SpecAggregate.       *)
(***************************************************************************)
\* the values a raw metric takes in SpecAggregate (thousandths): below zero,
\* zero and two values above zero
SampleValues == {0 - 2000, 0, 1000, 3000}

\* the records of SpecAggregate: one value for three of the columns, another
\* for the other two
SampleRecords ==
    {[critical_temperature |-> x, operational_domain_ratio |-> y,
      defect_clearance_arsenic |-> x, defect_clearance_vacancy |-> y,
      band_bending_resilience_mV |-> x, chi_value |-> RatZero] :
        x \in SampleValues, y \in SampleValues}

\* three records as the metric routines may return them: raw metrics
\* (100, 0.5, 2.0, 1.0, 50), (200, 0.8, 1.0, 0.5, 80), (150, 0.2, 3.0, 2.0, 20)
ExampleTable ==
    [i \in 0 .. 2 |->
        [critical_temperature       |-> <<100000, 200000, 150000>>[i + 1],
         operational_domain_ratio   |-> <<500, 800, 200>>[i + 1],
         defect_clearance_arsenic   |-> <<2000, 1000, 3000>>[i + 1],
         defect_clearance_vacancy   |-> <<1000, 500, 2000>>[i + 1],
         band_bending_resilience_mV |-> <<50000, 80000, 20000>>[i + 1],
         chi_value                  |-> RatZero]]

\* the tables line 340 is entered with in SpecAggregate
SampleTables(n) ==
    [0 .. (n - 1) -> SampleRecords] \cup (IF n = 3 THEN {ExampleTable} ELSE {})

\* the state at line 340 after the sequential path has filled the table
InitAggregate ==
    /\ \E n \in 1 .. MaxLayouts :
           /\ gate_designs = [i \in 1 .. n |-> GoodLayout(i)]
           /\ metrics \in SampleTables(n)
    /\ verbose_console = FALSE
    /\ hardware_concurrency = 1
    /\ env_value = EnvUnset
    /\ pc = "agg_max"
    /\ proc = "running"
    /\ outcome = "pending"
    /\ exception = NoException
    /\ thread_count = 1
    /\ contexts = [t \in {0} |-> initialize_context]
    /\ seq_idx = total_layouts
    /\ next_index = 0
    /\ spawned = 0
    /\ wpc = [t \in Workers |-> "unborn"]
    /\ widx = [t \in Workers |-> 0]
    /\ wctx = [t \in Workers |-> NoIndex]
    /\ join_i = 0
    /\ progress_mutex = "free"
    /\ progress_queue = << >>
    /\ cv_waiting = FALSE
    /\ printed = 0
    /\ c_idx = 0
    /\ c_entry = DefaultMetrics
    /\ in_print = {}
    /\ stdout_lines = [i \in Indices |-> << >>]
    /\ maxima = NoMaxima
    /\ result = NoResult
    /\ claim_count = [i \in Indices |-> 0]
    /\ call_count = [i \in Indices |-> 1]
    /\ write_count = [i \in Indices |-> 1]
    /\ failed = {}
    /\ threw = {}
    /\ enqueued = 0
    /\ enq_pos = [i \in Indices |-> 0]
    /\ NoDriver

NextAggregate ==
    \/ ComputeMaxima
    \/ ScoreAndReturn

SpecAggregate == InitAggregate /\ [][NextAggregate]_vars

(***************************************************************************)
(* compute_fom, fanout_fom.hpp:431-548: the caller of evaluate_fom_metrics *)
(* that writes the two reports, with the call of evaluate_fom_metrics it  *)
(* makes at line 486.                                                      *)
(***************************************************************************)
\* the call of evaluate_fom_metrics has not been entered
IdleState ==
    /\ pc = "idle"
    /\ proc = "running"
    /\ outcome = "pending"
    /\ exception = NoException
    /\ metrics = << >>
    /\ thread_count = 0
    /\ contexts = << >>
    /\ seq_idx = 0
    /\ next_index = 0
    /\ spawned = 0
    /\ wpc = [t \in Workers |-> "unborn"]
    /\ widx = [t \in Workers |-> 0]
    /\ wctx = [t \in Workers |-> NoIndex]
    /\ join_i = 0
    /\ progress_mutex = "free"
    /\ progress_queue = << >>
    /\ cv_waiting = FALSE
    /\ printed = 0
    /\ c_idx = 0
    /\ c_entry = DefaultMetrics
    /\ in_print = {}
    /\ stdout_lines = << >>
    /\ maxima = NoMaxima
    /\ result = NoResult
    /\ claim_count = << >>
    /\ call_count = << >>
    /\ write_count = << >>
    /\ failed = {}
    /\ threw = {}
    /\ enqueued = 0
    /\ enq_pos = << >>

\* a call of evaluate_fom_metrics is entered: its locals as InitState has them
FreshCall ==
    /\ pc' = "entry"
    /\ proc' = "running"
    /\ outcome' = "pending"
    /\ exception' = NoException
    /\ metrics' = << >>
    /\ thread_count' = 0
    /\ contexts' = << >>
    /\ seq_idx' = 0
    /\ next_index' = 0
    /\ spawned' = 0
    /\ wpc' = [t \in Workers |-> "unborn"]
    /\ widx' = [t \in Workers |-> 0]
    /\ wctx' = [t \in Workers |-> NoIndex]
    /\ join_i' = 0
    /\ progress_mutex' = "free"
    /\ progress_queue' = << >>
    /\ cv_waiting' = FALSE
    /\ printed' = 0
    /\ c_idx' = 0
    /\ c_entry' = DefaultMetrics
    /\ in_print' = {}
    /\ stdout_lines' = << >>
    /\ maxima' = NoMaxima
    /\ result' = NoResult
    /\ claim_count' = << >>
    /\ call_count' = << >>
    /\ write_count' = << >>
    /\ failed' = {}
    /\ threw' = {}
    /\ enqueued' = 0
    /\ enq_pos' = << >>

\* the arguments and the machine a call finds
machine == <<hardware_concurrency, env_value>>

\* lines 468-470 and 508-510: the header row, one name per column
Header ==
    <<"index", "critical_temperature_K", "operational_domain_ratio",
      "defect_clearance_arsenic_nm", "defect_clearance_vacancy_nm",
      "band_bending_resilience_mV", "chi">>

\* a / b rounded to the nearest integer, b > 0
RoundDiv(a, b) == (2 * a + b) \div (2 * b)

\* "{:.6f}" of a raw metric: the number of millionths printed.  A raw metric
\* is a number of thousandths, which six decimals hold exactly
Fixed6(value) == value * 1000

\* "{:.6f}" of a score: the fraction rounded to millionths
Fixed6Chi(chi) == RoundDiv(chi.n * 1000000, chi.d)

\* variant of Row: the score is printed before the raw metrics
RowScoreFirst(i, entry) ==
    <<i, Fixed6Chi(entry.chi_value), Fixed6(entry.critical_temperature),
      Fixed6(entry.operational_domain_ratio), Fixed6(entry.defect_clearance_arsenic),
      Fixed6(entry.defect_clearance_vacancy), Fixed6(entry.band_bending_resilience_mV)>>

\* lines 515-518 and 537-541: the fields of one row, in the order of the
\* arguments of fmt::format
Row(i, entry) ==
    <<i, Fixed6(entry.critical_temperature), Fixed6(entry.operational_domain_ratio),
      Fixed6(entry.defect_clearance_arsenic), Fixed6(entry.defect_clearance_vacancy),
      Fixed6(entry.band_bending_resilience_mV), Fixed6Chi(entry.chi_value)>>

\* variant of EmptyReport: a row of a default record follows the header
EmptyReportWithRow == <<Header, Row(0, DefaultMetrics)>>

\* lines 459-461 and 477-479: what an empty report holds
EmptyReport == <<Header>>

\* lines 508-519: the header and the loop over evaluation->metrics
FullReport(table) ==
    <<Header>> \o [k \in 1 .. Size(table) |-> Row(k - 1, table[k - 1])]

\* lines 535-541
BestReport(evaluation) ==
    <<Header, Row(evaluation.best_index, evaluation.metrics[evaluation.best_index])>>

\* what compute_fom returns
ReturnsNothing == [kind |-> "nullopt", index |-> NoIndex]
ReturnsIndex(i) == [kind |-> "index", index |-> i]
\* an exception leaves the caller
Raises == [kind |-> "exception", index |-> NoIndex]

\* the state of a call of evaluate_fom_metrics, its arguments aside
call_vars == <<pc, proc, outcome, exception, metrics, thread_count, contexts, seq_idx,
               next_index, spawned, wpc, widx, wctx, join_i, progress_mutex,
               progress_queue, cv_waiting, printed, c_idx, c_entry, in_print,
               stdout_lines, maxima, result, claim_count, call_count, write_count,
               failed, threw, enqueued, enq_pos>>
batch_vars == <<groups, group_i, total_processed>>

\* lines 440-484: no candidates
ComputeFomEmpty ==
    /\ drv_pc = "cf_entry"
    /\ NoLayouts(gate_designs)
    /\ IF ~save_report
       THEN /\ console' = console \o <<"No layouts available">>
            /\ drv_outcome' = ReturnsNothing
            /\ drv_pc' = "cf_returned"
            /\ UNCHANGED <<table_file, best_file>>
       ELSE IF fs.mkdir = "throws"
       THEN /\ console' = console \o <<"No layouts available">>
            /\ drv_outcome' = Raises
            /\ drv_pc' = "cf_unwound"
            /\ UNCHANGED <<table_file, best_file>>
       ELSE /\ table_file' = IF fs.open_full THEN EmptyReport ELSE NoFile
            /\ best_file' = IF fs.open_best THEN EmptyReport ELSE NoFile
            /\ console' = console \o
                   <<"No layouts available",
                     IF fs.open_full THEN "Empty report saved"
                                     ELSE "Failed to write FoM report",
                     IF fs.open_best THEN "Empty best-design report saved"
                                     ELSE "Failed to write best FoM report">>
            /\ drv_outcome' = ReturnsNothing
            /\ drv_pc' = "cf_returned"
    /\ UNCHANGED <<gate_designs, verbose_console, machine, call_vars, save_report, fs,
                   batch_vars>>

\* lines 486-487: the call, with verbose_console = true
ComputeFomCall ==
    /\ drv_pc = "cf_entry"
    /\ ~NoLayouts(gate_designs)
    /\ verbose_console' = TRUE
    /\ FreshCall
    /\ drv_pc' = "cf_evaluating"
    /\ UNCHANGED <<gate_designs, machine, save_report, fs, drv_outcome, table_file,
                   best_file, console, batch_vars>>

\* lines 488-525: the call is over; the full report
ComputeFomFullReport ==
    /\ drv_pc = "cf_evaluating"
    /\ proc = "running" /\ pc \in {"returned", "unwound"}
    /\ IF outcome = "exception"
       THEN /\ drv_outcome' = Raises
            /\ drv_pc' = "cf_unwound"
            /\ UNCHANGED <<table_file, console>>
       ELSE IF outcome = "nullopt"
       THEN /\ drv_outcome' = ReturnsNothing
            /\ drv_pc' = "cf_returned"
            /\ UNCHANGED <<table_file, console>>
       ELSE IF ~save_report
       THEN /\ drv_outcome' = ReturnsIndex(result.best_index)
            /\ drv_pc' = "cf_returned"
            /\ UNCHANGED <<table_file, console>>
       ELSE IF fs.mkdir = "throws"
       THEN /\ drv_outcome' = Raises
            /\ drv_pc' = "cf_unwound"
            /\ UNCHANGED <<table_file, console>>
       ELSE /\ table_file' = IF fs.open_full THEN FullReport(result.metrics) ELSE NoFile
            /\ console' = Append(console, IF fs.open_full THEN "Report saved"
                                          ELSE "Failed to write FoM report")
            /\ drv_pc' = "cf_best"
            /\ UNCHANGED drv_outcome
    /\ UNCHANGED <<gate_designs, verbose_console, machine, call_vars, save_report, fs,
                   best_file, batch_vars>>

\* lines 527-547: the best-only report and the return
ComputeFomBestReport ==
    /\ drv_pc = "cf_best"
    /\ best_file' = IF fs.open_best THEN BestReport(result) ELSE NoFile
    /\ console' = Append(console, IF fs.open_best THEN "Best design metrics saved"
                                  ELSE "Failed to write best FoM report")
    /\ drv_outcome' = ReturnsIndex(result.best_index)
    /\ drv_pc' = "cf_returned"
    /\ UNCHANGED <<gate_designs, verbose_console, machine, call_vars, save_report, fs,
                   table_file, batch_vars>>

ComputeFom ==
    \/ ComputeFomEmpty
    \/ ComputeFomCall
    \/ ComputeFomFullReport
    \/ ComputeFomBestReport

\* the machines of SpecReport: one hardware thread or two
HardwareOfReport == {1, 2}

\* what the file system may do
FileSystems ==
    [mkdir : {"ok", "throws"}, open_full : BOOLEAN, open_best : BOOLEAN]

InitReport ==
    /\ gate_designs \in UNION {DesignLists(n) : n \in 0 .. MaxLayouts}
    /\ verbose_console = FALSE
    /\ hardware_concurrency \in HardwareOfReport
    /\ env_value = EnvUnset
    /\ IdleState
    /\ save_report \in BOOLEAN
    /\ fs \in FileSystems
    /\ drv_pc = "cf_entry"
    /\ drv_outcome = Pending
    /\ table_file = NoFile
    /\ best_file = NoFile
    /\ console = << >>
    /\ groups = << >>
    /\ group_i = 0
    /\ total_processed = 0

\* the steps of a call of evaluate_fom_metrics that has candidates: lines
\* 88-95 are passed over
EvaluateCandidates ==
    \/ Setup
    \/ SeqCompute
    \/ SeqThrow
    \/ SeqPrint
    \/ SpawnWorker
    \/ ConsumerLock
    \/ ConsumerExit
    \/ ConsumerBlock
    \/ ConsumerWake
    \/ ConsumerSpuriousWake
    \/ ConsumerPop
    \/ ConsumerDrained
    \/ ConsumerCopy
    \/ ConsumerPrint
    \/ ConsumerRelock
    \/ JoinWorker
    \/ ComputeMaxima
    \/ ScoreAndReturn
    \/ \E t \in Workers :
           \/ WorkerClaim(t)
           \/ WorkerCompute(t)
           \/ WorkerThrow(t)
           \/ WorkerNotifyPush(t)
           \/ WorkerSignal(t)
    \/ Terminate

(***************************************************************************)
(* The loop over the gates of batch_fom_report_from_sqd.cpp, lines 428-496, *)
(* entered with both files open and their header rows written (lines 386-  *)
(* 410).  Every gate has at least one layout (line 366).                   *)
(***************************************************************************)
MaxGroups == 2

\* the layouts of one gate: one or two
GroupSizes == 1 .. Min2(2, MaxLayouts)

\* a gate: its layouts and whether resolve_truth_tables knows its function
Gates ==
    [layouts : UNION {DesignLists(n) : n \in GroupSizes}, known : BOOLEAN]

\* batch_fom_report_from_sqd.cpp:407-410
BatchHeader == <<"gate", "file">> \o Header

\* line 473: the file the layout at position i of gate g was read from
FileOf(g, i) == <<g, i>>

\* batch_fom_report_from_sqd.cpp:475-478 and 482-485
BatchRow(g, i, entry) == <<g, FileOf(g, i)>> \o Row(i, entry)

\* batch_fom_report_from_sqd.cpp:470-487: what the loop adds to best_file
BestRows(g, evaluation) ==
    LET table == evaluation.metrics
        RECURSIVE From(_)
        From(i) == IF i >= Size(table) THEN << >>
                   ELSE (IF i = evaluation.best_index
                         THEN <<BatchRow(g, i, table[i])>> ELSE << >>) \o From(i + 1)
    IN  From(0)

\* batch_fom_report_from_sqd.cpp:470-479: what the loop adds to table_file
TableRows(g, evaluation) ==
    [k \in 1 .. Size(evaluation.metrics) |-> BatchRow(g, k - 1, evaluation.metrics[k - 1])]

\* how the run of the driver ends
ExitSuccess == [kind |-> "EXIT_SUCCESS", index |-> NoIndex]
Terminated == [kind |-> "terminated", index |-> NoIndex]

\* batch_fom_report_from_sqd.cpp:430-462: the next gate; it is skipped when
\* no truth table is known for it, otherwise evaluate_fom_metrics is called
BatchNextGate ==
    /\ drv_pc = "b_loop"
    /\ group_i < Len(groups)
    /\ LET gate == groups[group_i + 1]
       IN  IF ~gate.known
           THEN /\ console' = Append(console, "Skipping gate")
                /\ group_i' = group_i + 1
                /\ UNCHANGED <<gate_designs, call_vars, drv_pc>>
           ELSE /\ gate_designs' = gate.layouts
                /\ FreshCall
                /\ drv_pc' = "b_evaluating"
                /\ UNCHANGED <<console, group_i>>
    /\ UNCHANGED <<verbose_console, machine, save_report, fs, drv_outcome, table_file,
                   best_file, groups, total_processed>>

\* batch_fom_report_from_sqd.cpp:461-495: the call is over.  Nothing in main
\* catches an exception that leaves it, so std::terminate ends the run
BatchAfterCall ==
    /\ drv_pc = "b_evaluating"
    /\ proc = "running" /\ pc \in {"returned", "unwound"}
    /\ IF outcome = "exception"
       THEN /\ proc' = "aborted"
            /\ drv_outcome' = Terminated
            /\ drv_pc' = "b_terminated"
            /\ UNCHANGED <<table_file, best_file, console, group_i, total_processed>>
       ELSE IF outcome = "nullopt"
       THEN /\ console' = Append(console, "FoM evaluation failed")
            /\ group_i' = group_i + 1
            /\ drv_pc' = "b_loop"
            /\ UNCHANGED <<proc, drv_outcome, table_file, best_file, total_processed>>
       ELSE /\ table_file' = table_file \o TableRows(group_i, result)
            /\ best_file' = best_file \o BestRows(group_i, result)
            /\ total_processed' = total_processed + 1
            /\ group_i' = group_i + 1
            /\ drv_pc' = "b_loop"
            /\ UNCHANGED <<proc, drv_outcome, console>>
    /\ UNCHANGED <<gate_designs, verbose_console, machine, save_report, fs, groups,
                   pc, outcome, exception, metrics, thread_count, contexts, seq_idx,
                   next_index, spawned, wpc, widx, wctx, join_i, progress_mutex,
                   progress_queue, cv_waiting, printed, c_idx, c_entry, in_print,
                   stdout_lines, maxima, result, claim_count, call_count, write_count,
                   failed, threw, enqueued, enq_pos>>

\* batch_fom_report_from_sqd.cpp:498-515: the loop is over
BatchFinish ==
    /\ drv_pc = "b_loop"
    /\ group_i = Len(groups)
    /\ console' = Append(console, "FoM evaluation complete")
    /\ drv_outcome' = ExitSuccess
    /\ drv_pc' = "b_done"
    /\ UNCHANGED <<gate_designs, verbose_console, machine, call_vars, save_report, fs,
                   table_file, best_file, batch_vars>>

Batch ==
    \/ BatchNextGate
    \/ BatchAfterCall
    \/ BatchFinish

RECURSIVE SeqsUpTo(_, _)
\* the sequences of 1 .. n elements of S
SeqsUpTo(S, n) ==
    IF n = 0 THEN {}
    ELSE [1 .. n -> S] \cup SeqsUpTo(S, n - 1)

InitBatch ==
    /\ gate_designs = << >>
    /\ verbose_console \in BOOLEAN
    /\ hardware_concurrency \in HardwareOfReport
    /\ env_value = EnvUnset
    /\ IdleState
    /\ save_report = FALSE
    /\ fs = FsFine
    /\ drv_pc = "b_loop"
    /\ drv_outcome = Pending
    /\ table_file = <<BatchHeader>>
    /\ best_file = <<BatchHeader>>
    /\ console = << >>
    /\ groups \in SeqsUpTo(Gates, MaxGroups)
    /\ group_i = 0
    /\ total_processed = 0

(***************************************************************************)
(* SpecCallers: a call of compute_fom or a run of the batch driver, with   *)
(* the calls of evaluate_fom_metrics they make.                            *)
(***************************************************************************)
InitCallers == InitReport \/ InitBatch

\* the return of notify_progress at line 280 is reached from the batch
\* driver only: compute_fom calls with verbose_console = true
NextCallers ==
    \/ ComputeFom
    \/ Batch
    \/ EvaluateCandidates
    \/ \E t \in Workers : WorkerNotifySkip(t)

SpecCallers == InitCallers /\ [][NextCallers]_vars

(***************************************************************************)
(* Properties of the work distribution and of the result table.            *)
(***************************************************************************)
ConcurrentPath == thread_count > 1
AllWorkersReturned ==
    /\ ConcurrentPath
    /\ spawned = thread_count
    /\ \A t \in 0 .. (thread_count - 1) : wpc[t] = "done"

\* C1: in the concurrent path no index below N is obtained from next_index
\* twice, in any interleaving, and once every worker has left its loop every
\* index in [0, N) has been obtained exactly once.
C1_ClaimsArePartition ==
    /\ \A i \in DOMAIN claim_count : claim_count[i] <= 1
    /\ AllWorkersReturned => \A i \in Indices : claim_count[i] = 1

\* three workers have shared three indices and left their loops
C1_Witness ==
    /\ AllWorkersReturned
    /\ thread_count >= 3
    /\ total_layouts >= 3
    /\ next_index = total_layouts + thread_count

\* C2: a result returned for N > 0 holds exactly N records, each written by a
\* metric computation; for N = 0 the outcome is the empty result, never a table.
C2_TableFullOrNoResult ==
    /\ (outcome = "result" /\ failed = {}) =>
          /\ total_layouts > 0
          /\ DOMAIN result.metrics = Indices
          /\ \A i \in Indices : write_count[i] >= 1
    /\ total_layouts = 0 => outcome \in {"pending", "nullopt"}
    /\ (total_layouts = 0 /\ pc # "entry") => (outcome = "nullopt" /\ result = NoResult)

\* a table of three records returned by the concurrent path
C2_Witness ==
    /\ outcome = "result"
    /\ ConcurrentPath
    /\ Size(result.metrics) = 3

RawEqual(a, b) ==
    /\ a.critical_temperature = b.critical_temperature
    /\ a.operational_domain_ratio = b.operational_domain_ratio
    /\ a.defect_clearance_arsenic = b.defect_clearance_arsenic
    /\ a.defect_clearance_vacancy = b.defect_clearance_vacancy
    /\ a.band_bending_resilience_mV = b.band_bending_resilience_mV

\* the table changes in slot i alone, which receives the metrics of candidate
\* i computed with context c
StoresOnly(i, c) ==
    \A j \in Indices :
        metrics'[j] = IF j = i THEN compute_with_context(contexts[c], LayoutAt(i))
                      ELSE metrics[j]

\* C3: the metric computation runs at most once per index, with candidate i
\* and the context of the calling thread, and stores into slot i alone; in a
\* returned result it has run exactly once for every index and record i holds
\* the metrics of candidate i.
C3_OneCallPerIndexIntoItsSlot ==
    /\ [](/\ \A i \in DOMAIN call_count : call_count[i] <= 1 /\ write_count[i] <= 1
          /\ outcome = "result" =>
                \A i \in Indices :
                    /\ call_count[i] = 1
                    /\ write_count[i] = 1
                    /\ RawEqual(result.metrics[i],
                                compute_with_context(initialize_context, LayoutAt(i))))
    /\ [][/\ \A t \in Workers :
                (wpc[t] = "compute" /\ wpc'[t] = "notify") =>
                    (StoresOnly(widx[t], t) /\ call_count'[widx[t]] = call_count[widx[t]] + 1)
          /\ (pc = "seq" /\ pc' \in {"seq", "seq_print", "agg_max"}) =>
                    (StoresOnly(seq_idx, 0) /\ call_count'[seq_idx] = call_count[seq_idx] + 1)]_vars

\* the third worker has just computed candidate 0 with its own context into
\* slot 0, after candidate 1 was computed by another worker
C3_Witness ==
    /\ wpc[2] = "notify" /\ widx[2] = 0
    /\ call_count[0] = 1 /\ call_count[1] = 1
    /\ metrics[0] = compute_with_context(contexts[2], LayoutAt(0))
    /\ metrics[2] = DefaultMetrics

\* thread-level view of the table: who is writing and who is reading slot i
WritingSlot(i) == \E t \in Workers : wpc[t] = "compute" /\ SlotFor(widx[t]) = i
ReadingSlot(i) ==
    \/ pc = "c_copy" /\ c_idx = i
    \/ pc \in {"agg_max", "agg_score"} /\ i \in Indices
    \/ outcome = "result" /\ i \in Indices

\* C4: no slot is written twice, and while slot i is read (by the progress
\* consumer, by the aggregation or by the caller) no worker is writing it and
\* its one write has been completed.
C4_NoReadOverlapsWrite ==
    \A i \in DOMAIN write_count :
        /\ write_count[i] <= 1
        /\ ReadingSlot(i) => (~WritingSlot(i) /\ write_count[i] = 1)

\* the consumer copies one slot while a worker is writing another one
C4_Witness ==
    /\ pc = "c_copy"
    /\ write_count[c_idx] = 1
    /\ \E t \in Workers : wpc[t] = "compute" /\ widx[t] # c_idx

\* the sequential path as a function of the candidates: lines 254-256 from
\* index i on, then the aggregation
RECURSIVE SequentialTable(_, _, _)
SequentialTable(designs, table, i) ==
    IF i >= Len(designs) THEN table
    ELSE SequentialTable(designs,
                         [table EXCEPT ![i] = compute_with_context(initialize_context, designs[i + 1])],
                         i + 1)
SequentialResult(designs) ==
    LET table == SequentialTable(designs, [i \in 0 .. (Len(designs) - 1) |-> DefaultMetrics], 0)
    IN  Aggregate(table, Maxima(table))

\* C5: the returned table, best index and best score are those of the
\* sequential evaluation of the same candidates, whatever the worker count
\* and the interleaving.
C5_ResultIsSequentialResult ==
    outcome = "result" => result = SequentialResult(gate_designs)

\* a result of the concurrent path whose best record is not the first one
C5_Witness ==
    /\ outcome = "result"
    /\ ConcurrentPath
    /\ total_layouts >= 2
    /\ result.best_index = 1

\* C6: once a metric computation has failed, no result is handed to the
\* caller: the outcome is an exception or the end of the process, and the
\* result stays unset.
C6_NoResultAfterFailure ==
    failed # {} => (outcome \in {"pending", "exception", "aborted"} /\ result = NoResult)

\* candidate 2 of three failed in a worker, the others were computed, and the
\* process ended
C6_Witness ==
    /\ failed = {2}
    /\ total_layouts = 3
    /\ ConcurrentPath
    /\ write_count[0] = 1 /\ write_count[1] = 1
    /\ outcome = "aborted"

(***************************************************************************)
(* Properties of a failing metric computation.                             *)
(***************************************************************************)
Halted == proc = "aborted" \/ pc \in {"returned", "unwound"}

\* C7: when the metric computation of candidate i has failed and the
\* evaluation is over, the caller holds an exception that names i.
C7_FailureReachesCallerWithIndex ==
    (failed # {} /\ Halted) =>
        (outcome = "exception" /\ exception.thrown /\ exception.index \in failed)

\* C8: a worker whose metric computation has thrown never returns to its
\* loop (it obtains no further index), and the evaluation then halts: the
\* process ends, so the caller stays neither in the progress consumer nor in
\* the join loop.
C8_FailureHaltsEvaluation ==
    /\ [](\A t \in threw : wpc[t] = "throwing")
    /\ (threw # {}) ~> (proc = "aborted")

\* the process ended while the caller was blocked in the consumer's wait with
\* fewer than N lines printed
C8_Witness ==
    /\ threw # {}
    /\ proc = "aborted"
    /\ pc = "c_wait" /\ cv_waiting
    /\ printed < total_layouts

(***************************************************************************)
(* Properties of the worker count, checked under SpecThreads.              *)
(***************************************************************************)
MinOf(S) == CHOOSE x \in S : \A y \in S : x <= y

\* the value the override contributes: the number read from it, when positive
OverrideIfValid(env) ==
    IF env.set /\ strtoull(env.str) > 0 THEN {strtoull(env.str)} ELSE {}

\* C9: the worker count is max(1, min(hardware concurrency (0 counting as 1),
\* 128, the override if valid, N)); with hardware concurrency 8 and N = 10 it
\* is 4 for the override "4" and 8 without an override.
C9_ThreadCountFormula ==
    pc = "threads" =>
        /\ thread_count =
              Max2(1, MinOf({IF hardware_concurrency = 0 THEN 1 ELSE hardware_concurrency,
                             128, total_layouts} \cup OverrideIfValid(env_value)))
        /\ (hardware_concurrency = 8 /\ total_layouts = 10 /\ env_value = EnvStr(<<"4">>))
              => thread_count = 4
        /\ (hardware_concurrency = 8 /\ total_layouts = 10 /\ env_value = EnvUnset)
              => thread_count = 8

\* hardware concurrency 8, ten layouts and the override "4" give four workers
C9_Witness ==
    /\ pc = "threads"
    /\ hardware_concurrency = 8
    /\ total_layouts = 10
    /\ env_value = EnvStr(<<"4">>)
    /\ thread_count = 4

\* a string that is a decimal number as a whole: optional white space, an
\* optional sign, one or more digits, optional white space
RECURSIVE AllSpaces(_)
AllSpaces(s) == s = << >> \/ (IsSpace(Head(s)) /\ AllSpaces(Tail(s)))
RECURSIVE DigitsThenSpaces(_)
DigitsThenSpaces(s) ==
    \/ AllSpaces(s)
    \/ s # << >> /\ Head(s) \in Digits /\ DigitsThenSpaces(Tail(s))
Unsigned(s) == IF s # << >> /\ Head(s) \in {"-", "+"} THEN Tail(s) ELSE s
IsNumber(s) ==
    LET u == Unsigned(SkipSpace(s))
    IN  u # << >> /\ Head(u) \in Digits /\ DigitsThenSpaces(u)
\* the number is zero or carries a minus sign
RECURSIVE AllZeros(_)
AllZeros(s) == s = << >> \/ IsSpace(Head(s)) \/ (Head(s) = "0" /\ AllZeros(Tail(s)))
NonPositive(s) ==
    LET t == SkipSpace(s)
    IN  IsNumber(s) /\ (Head(t) = "-" \/ AllZeros(Unsigned(t)))

\* C10: an override never raises the worker count above the count without
\* override, and an override that is not positive or is not a number leaves
\* the count as it is without override.
C10_OverrideReducesInvalidIgnored ==
    (pc = "threads" /\ env_value.set) =>
        LET unset == ThreadCount(hardware_concurrency, EnvUnset, total_layouts)
        IN  /\ thread_count <= unset
            /\ (NonPositive(env_value.str) \/ ~IsNumber(env_value.str))
                  => thread_count = unset

(***************************************************************************)
(* Properties of the two paths and of the worker loop.                     *)
(***************************************************************************)
SetupDone == pc # "entry" /\ gate_designs # << >>
Born == {t \in Workers : wpc[t] # "unborn"}
AfterThePath == pc \in {"agg_max", "agg_score", "returned"}

\* with W <= 1 no thread exists, one context exists and the loop of the
\* calling thread has computed every index once when it is left
SequentialShape ==
    (SetupDone /\ thread_count <= 1) =>
        /\ Born = {} /\ spawned = 0
        /\ Size(contexts) = 1
        /\ pc \in {"seq", "seq_print", "unwound", "agg_max", "agg_score", "returned"}
        /\ \A i \in Indices : call_count[i] = (IF i < seq_idx THEN 1 ELSE 0)
                               \/ (i = seq_idx /\ pc \in {"seq_print", "unwound"}
                                   /\ call_count[i] = 1)
        /\ AfterThePath => seq_idx = total_layouts

\* with W > 1 the threads created so far are 0 .. spawned - 1, and all W of
\* them exist once the creating loop is left
ConcurrentShape ==
    (SetupDone /\ thread_count > 1) =>
        /\ Born = 0 .. (spawned - 1)
        /\ spawned <= thread_count
        /\ pc # "spawn" => spawned = thread_count
        /\ pc \notin {"seq", "seq_print", "unwound"}
        /\ seq_idx = 0

\* a worker leaves its loop only with an index >= N from next_index, goes on
\* to the computation with every index below N, and is never seen again once
\* it has left
WorkerLoopStep ==
    \A t \in Workers :
        /\ (wpc[t] # "done" /\ wpc'[t] = "done") =>
               (wpc[t] = "claim" /\ next_index >= total_layouts)
        /\ (wpc[t] = "claim" /\ wpc'[t] # "claim" /\ next_index < total_layouts) =>
               (wpc'[t] = "compute" /\ widx'[t] = next_index)
        /\ wpc[t] = "done" => wpc'[t] = "done"

\* C11: when the worker count W is <= 1 no thread is created and one context
\* serves a loop over all indices 0 .. N-1; when W > 1 exactly W threads are
\* created, and each claims indices until it obtains one >= N and then
\* leaves without computing anything more.
C11_PathByWorkerCount ==
    /\ [](SequentialShape /\ ConcurrentShape)
    /\ [][WorkerLoopStep]_vars

\* three workers were created for three candidates, each has left its loop
\* and the call has returned the table
C11_Witness ==
    /\ thread_count = 3 /\ Born = {0, 1, 2}
    /\ \A t \in Born : wpc[t] = "done"
    /\ next_index = total_layouts + thread_count
    /\ outcome = "result"

(***************************************************************************)
(* Properties of the per-worker contexts.                                  *)
(***************************************************************************)
\* the workers that are inside a metric computation with context c
UsersOf(c) == {t \in Born : wpc[t] = "compute" /\ wctx[t] = c}

ContextsOwned ==
    SetupDone =>
        /\ DOMAIN contexts = 0 .. (thread_count - 1)
        /\ \A c \in DOMAIN contexts : contexts[c] = initialize_context
        /\ \A c, d \in DOMAIN contexts : contexts[c] = contexts[d]
        /\ \A t \in Born : wctx[t] = t /\ wctx[t] \in DOMAIN contexts
        /\ \A t, u \in Born : t # u => wctx[t] # wctx[u]
        /\ \A c \in DOMAIN contexts : Cardinality(UsersOf(c)) <= 1

\* a worker keeps its context for all of its computations, and no step of a
\* thread changes a context that another thread refers to
ContextsKept ==
    /\ \A t \in Born : wctx'[t] = wctx[t]
    /\ SetupDone => contexts' = contexts

\* C12: no context is used by two workers: worker t uses context t and no
\* other for all of its computations, all contexts are built from the same
\* parameters and equal in value, and what one worker's computation does to
\* its context is never seen by another worker.
C12_ContextPerWorker ==
    /\ []ContextsOwned
    /\ [][ContextsKept]_vars

\* two workers are inside a metric computation at the same time, each with
\* its own context, and the two contexts hold the same values
C12_Witness ==
    /\ wpc[0] = "compute" /\ wpc[1] = "compute"
    /\ wctx[0] = 0 /\ wctx[1] = 1
    /\ contexts[0] = contexts[1]

(***************************************************************************)
(* Properties of the progress output.                                      *)
(***************************************************************************)
LinesFor(i) == Len(stdout_lines[i])

\* C13: with verbose_console and no failed computation, N progress lines are
\* printed by the time the path is left, one for each index in [0, N); no
\* index ever has two lines, whatever the path, the worker count and the
\* interleaving.
C13_OneLinePerIndex ==
    /\ \A i \in DOMAIN stdout_lines : LinesFor(i) <= 1
    /\ (verbose_console /\ SetupDone /\ AfterThePath /\ failed = {}) =>
           \A i \in Indices : LinesFor(i) = 1

\* three workers, three candidates, the consumer has printed a line for each
\* and the call has returned
C13_Witness ==
    /\ verbose_console /\ thread_count = 3 /\ total_layouts = 3
    /\ outcome = "result"
    /\ \A i \in Indices : LinesFor(i) = 1

\* C14: in the concurrent phase of a verbose evaluation at most one thread
\* is inside a print at any time, and that thread is the calling thread (no
\* worker prints), so no two progress lines interleave, although the
\* consumer holds no mutex while it prints.
C14_PrintsSerialized ==
    /\ Cardinality(in_print) <= 1
    /\ in_print \subseteq {MainThread}
    /\ MainThread \in in_print <=> pc \in {"seq_print", "c_print"}
    /\ pc = "c_print" => progress_mutex = "free"

\* the consumer is inside fmt::print without the mutex while one worker is
\* computing and another is about to push its index
C14_Witness ==
    /\ verbose_console /\ ConcurrentPath
    /\ pc = "c_print" /\ in_print = {MainThread} /\ progress_mutex = "free"
    /\ \E t, u \in Born : wpc[t] = "compute" /\ wpc[u] = "notify"

\* the metric computation of index i has completed
Computed(i) ==
    /\ write_count[i] >= 1
    /\ \A t \in Born : ~(wpc[t] = "compute" /\ widx[t] = i)

\* the indices pushed and not yet printed
Outstanding == {j \in DOMAIN enq_pos : enq_pos[j] > 0}

\* the queue holds indices whose computation has completed, in the order of
\* their pushes
QueueInPushOrder ==
    /\ \A k \in 1 .. Len(progress_queue) :
           /\ Computed(progress_queue[k])
           /\ enq_pos[progress_queue[k]] > 0
    /\ \A k, l \in 1 .. Len(progress_queue) :
           k < l => enq_pos[progress_queue[k]] < enq_pos[progress_queue[l]]

\* a line printed by the consumer is the line of the index that was pushed
\* first among those not yet printed
PrintsOldest ==
    (ConcurrentPath /\ stdout_lines' # stdout_lines) =>
        /\ c_idx \in Outstanding
        /\ \A j \in Outstanding : enq_pos[c_idx] <= enq_pos[j]
        /\ Computed(c_idx)
        /\ stdout_lines' = [stdout_lines EXCEPT ![c_idx] = Append(@, c_entry)]

\* C15: in the concurrent verbose path the consumer prints the indices in the
\* order in which the workers pushed them: an index is printed only after its
\* computation has completed, and of two pushed indices the one pushed first
\* is printed first, whether or not that is the order of the indices.
C15_PrintedInPushOrder ==
    /\ []QueueInPushOrder
    /\ [][PrintsOldest]_vars

\* the line of index 1 is being printed while index 0, pushed after it, waits
\* in the queue
C15_Witness ==
    /\ pc = "c_print" /\ c_idx = 1
    /\ progress_queue # << >> /\ Head(progress_queue) = 0
    /\ enq_pos[1] > 0 /\ enq_pos[0] > enq_pos[1]

(***************************************************************************)
(* Termination of the verbose concurrent path.                             *)
(***************************************************************************)
NoLayoutThrows == \A i \in Indices : ~MetricThrows(LayoutAt(i))
Blocked == pc = "c_wait" /\ cv_waiting

\* the consumer is blocked with an item in the queue only while the worker
\* that pushed it has its notification still to send; it leaves its loop
\* with N lines printed and an empty queue; a result implies joined workers
ConsumerSound ==
    /\ (Blocked /\ progress_queue # << >>) => \E t \in Born : wpc[t] = "signal"
    /\ (verbose_console /\ ConcurrentPath /\ (pc = "join" \/ AfterThePath)) =>
           (printed = total_layouts /\ progress_queue = << >> /\ progress_mutex = "free")
    /\ (ConcurrentPath /\ AfterThePath) => AllWorkersReturned

\* the consumer starts to wait only with the queue empty
BlocksOnEmptyQueue == (~Blocked /\ Blocked') => progress_queue = << >>

\* C16: under fair scheduling, a verbose concurrent evaluation in which every
\* metric computation returns a value terminates with a result: the consumer
\* waits only on an empty queue, no notification is lost, the consumer
\* leaves after N printed items, the workers are joined and the call returns.
C16_VerboseConcurrentTerminates ==
    /\ []ConsumerSound
    /\ [][BlocksOnEmptyQueue]_vars
    /\ (verbose_console /\ ConcurrentPath /\ NoLayoutThrows) ~> (outcome = "result")

\* the consumer was unblocked by a worker's notification and finds the item
\* in the queue
C16_Witness ==
    /\ verbose_console /\ ConcurrentPath /\ NoLayoutThrows
    /\ pc = "c_wait" /\ ~cv_waiting
    /\ progress_queue # << >>
    /\ printed < total_layouts

(***************************************************************************)
(* The progress channel without verbose_console.                           *)
(***************************************************************************)
ConsumerPositions == {"c_lock", "c_top", "c_wait", "c_drain", "c_copy", "c_print", "c_relock"}

\* nothing of the progress channel has been used
ChannelUnused ==
    /\ progress_queue = << >> /\ enqueued = 0
    /\ progress_mutex = "free"
    /\ ~cv_waiting
    /\ printed = 0
    /\ in_print = {}
    /\ \A i \in DOMAIN stdout_lines : stdout_lines[i] = << >>
    /\ \A t \in Workers : wpc[t] # "signal"
    /\ pc \notin ConsumerPositions

\* two workers that compute at the same time work on different slots with
\* different contexts
WorkersDisjoint ==
    \A t, u \in Born :
        (t # u /\ wpc[t] = "compute" /\ wpc[u] = "compute") =>
            (SlotFor(widx[t]) # SlotFor(widx[u]) /\ wctx[t] # wctx[u])

\* a step of a worker changes, of what the threads share, next_index or the
\* worker's own slot of metrics, and nothing else
WorkerStepTouches ==
    \A t \in Born :
        wpc'[t] # wpc[t] =>
            /\ UNCHANGED <<progress_vars, in_print, contexts, gate_designs>>
            /\ \/ UNCHANGED metrics
               \/ /\ wpc[t] = "compute" /\ UNCHANGED next_index
                  /\ \A i \in DOMAIN metrics : i # SlotFor(widx[t]) => metrics'[i] = metrics[i]

\* C17: without verbose_console the progress channel is not used at all: no
\* worker takes progress_mutex, pushes to progress_queue or notifies
\* progress_cv, the consumer loop does not run, and next_index is the only
\* thing that two threads both touch.
C17_NoChannelWhenQuiet ==
    /\ [](~verbose_console => (ChannelUnused /\ WorkersDisjoint))
    /\ [][~verbose_console => WorkerStepTouches]_vars

\* a quiet evaluation with three workers has returned its table
C17_Witness ==
    /\ ~verbose_console
    /\ thread_count = 3 /\ AllWorkersReturned
    /\ next_index = total_layouts + thread_count
    /\ outcome = "result"

(***************************************************************************)
(* Life time of the workers.                                               *)
(***************************************************************************)
\* the workers whose join has returned
Joined == IF ConcurrentPath THEN 0 .. (join_i - 1) ELSE {}

WorkersWithinCall ==
    /\ pc = "entry" => Born = {}
    /\ Joined \subseteq Born
    /\ \A t \in Joined : wpc[t] = "done"
    /\ (SetupDone /\ AfterThePath) =>
           /\ \A t \in Born : t \in Joined /\ wpc[t] = "done"
           /\ ConcurrentPath => Born = 0 .. (thread_count - 1)
           /\ \A i \in Indices : write_count[i] = 1 /\ Computed(i)

\* the aggregation takes its first step, and the call returns, with every
\* worker terminated; a terminated worker takes no further step
AggregatesAfterJoin ==
    /\ (maxima' # maxima \/ result' # result) =>
           /\ \A t \in Born : wpc[t] = "done" /\ t \in Joined
           /\ \A i \in Indices : write_count[i] = 1
    /\ AfterThePath => (wpc' = wpc /\ next_index' = next_index)

\* C18: the worker threads of an evaluation are created within the call and
\* have terminated and been joined before it returns; the aggregation (column
\* maxima, scores, best index) starts only after every worker has terminated,
\* so after every slot in [0, N) has been written.
C18_JoinedBeforeAggregation ==
    /\ []WorkersWithinCall
    /\ [][AggregatesAfterJoin]_vars

\* the column maxima have been computed after two workers were joined
C18_Witness ==
    /\ pc = "agg_score"
    /\ thread_count = 2 /\ Joined = {0, 1}
    /\ \A t \in Born : wpc[t] = "done"
    /\ maxima # NoMaxima

(***************************************************************************)
(* Properties of the normalisation, checked under SpecAggregate.           *)
(***************************************************************************)
\* the five raw columns and the maximum kept for each
Columns ==
    {<<"critical_temperature", "max_ct">>,
     <<"operational_domain_ratio", "max_op_domain_ratio">>,
     <<"defect_clearance_arsenic", "max_clearance_ars">>,
     <<"defect_clearance_vacancy", "max_clearance_vac">>,
     <<"band_bending_resilience_mV", "max_bbr">>}

\* the largest value of a column of the table
LargestOf(table, field) ==
    CHOOSE m \in {table[i][field] : i \in DOMAIN table} :
        \A j \in DOMAIN table : table[j][field] <= m

\* C19: for each of the five raw columns the value used as the denominator
\* of the normalisation is the maximum of the column over all N records,
\* whatever the table holds (columns of zeros and columns of values below
\* zero included).
C19_DenominatorIsColumnMax ==
    pc = "agg_score" =>
        \A col \in Columns : maxima[col[2]] = LargestOf(metrics, col[1])

\* the normalised value of column col of record i
NormOf(i, col) == safe_norm(metrics[i][col[1]], maxima[col[2]])

\* q is the quotient value / max_value of a division that took place
IsQuotient(q, value, max_value) ==
    /\ q.d > 0
    /\ max_value # 0
    /\ q.n * max_value = value * q.d

\* C20: the normalisation is a guarded division: when the maximum of a column
\* is not above the threshold every record's normalised value of that column
\* is 0, otherwise it is value / maximum; a column of zeros is normalised to
\* zeros, nothing is divided by zero, and every score is a number.
C20_GuardedDivision ==
    /\ pc = "agg_score" =>
           \A col \in Columns : \A i \in DOMAIN metrics :
               /\ maxima[col[2]] <= 0 => NormOf(i, col) = RatZero
               /\ maxima[col[2]] > 0 =>
                      IsQuotient(NormOf(i, col), metrics[i][col[1]], maxima[col[2]])
               /\ (\A j \in DOMAIN metrics : metrics[j][col[1]] = 0) =>
                      NormOf(i, col) = RatZero
               /\ NormOf(i, col).d > 0
    /\ outcome = "result" =>
           \A i \in DOMAIN result.metrics : result.metrics[i].chi_value.d > 0

\* a table of two records in which three columns hold only zeros and the
\* other two are divided by their maximum 3000, scored and returned
C20_Witness ==
    /\ outcome = "result"
    /\ Size(result.metrics) = 2
    /\ maxima.max_ct = 0 /\ maxima.max_clearance_ars = 0 /\ maxima.max_bbr = 0
    /\ maxima.max_op_domain_ratio = 3000
    /\ result.metrics[0].critical_temperature = 0
    /\ result.metrics[1].critical_temperature = 0
    /\ result.metrics[0].operational_domain_ratio = 1000
    /\ result.metrics[0].chi_value = [n |-> 0, d |-> 1]
    /\ result.metrics[1].chi_value = [n |-> 0, d |-> 1]


(***************************************************************************)
(* Properties of the score, checked under SpecAggregate.                   *)
(***************************************************************************)
LCM(a, b) == (a \div GCD(a, b)) * b

\* a common multiple of the maxima that are above zero
CommonMultiple(mx) ==
    LET m(f) == IF mx[f] > 0 THEN mx[f] ELSE 1
    IN  LCM(LCM(LCM(LCM(m("max_ct"), m("max_op_domain_ratio")),
                    m("max_clearance_ars")), m("max_clearance_vac")), m("max_bbr"))

\* value / max_value times the common multiple L, 0 for a column whose
\* maximum is not above zero
ScaledNorm(value, max_value, L) ==
    IF max_value > 0 THEN value * (L \div max_value) ELSE 0

\* C21: the score of a record is the weighted sum
\* -norm(CT) - norm(OPD) + norm(arsenic clearance) + norm(vacancy clearance)
\* - norm(BBR) of its normalised metrics: the weights are -1, -1, +1, +1, -1.
C21_ScoreIsWeightedSum ==
    /\ <<w_ct, w_op_domain, w_defect_arsenic, w_defect_vacancy, w_bbr>>
           = <<0 - 1, 0 - 1, 1, 1, 0 - 1>>
    /\ outcome = "result" =>
           \A i \in DOMAIN result.metrics :
               LET e   == result.metrics[i]
                   L   == CommonMultiple(maxima)
                   sum == 0 - ScaledNorm(e.critical_temperature, maxima.max_ct, L)
                            - ScaledNorm(e.operational_domain_ratio,
                                         maxima.max_op_domain_ratio, L)
                            + ScaledNorm(e.defect_clearance_arsenic,
                                         maxima.max_clearance_ars, L)
                            + ScaledNorm(e.defect_clearance_vacancy,
                                         maxima.max_clearance_vac, L)
                            - ScaledNorm(e.band_bending_resilience_mV, maxima.max_bbr, L)
               IN  /\ e.chi_value.d > 0
                   /\ e.chi_value.n * L = sum * e.chi_value.d

\* a scored table in which a record has the score -1/3 - 1 + 1/3 + 1 - 1/3
C21_Witness ==
    /\ outcome = "result"
    /\ maxima.max_ct = 3000 /\ maxima.max_op_domain_ratio = 3000
    /\ \E i \in DOMAIN result.metrics :
           /\ result.metrics[i].critical_temperature = 1000
           /\ result.metrics[i].operational_domain_ratio = 3000
           /\ result.metrics[i].chi_value = [n |-> 0 - 1, d |-> 3]

\* score a is below score b (both with a denominator above zero)
Below(a, b) == a.n * b.d < b.n * a.d

\* C22: the best index is the index of a record of minimal score; among
\* records of equal minimal score it is the lowest index; the best score
\* returned is that minimal score.
C22_BestIsFirstMinimum ==
    outcome = "result" =>
        LET chi(i) == result.metrics[i].chi_value
            b      == result.best_index
        IN  /\ b \in DOMAIN result.metrics
            /\ \A j \in DOMAIN result.metrics : ~Below(chi(j), chi(b))
            /\ \A j \in DOMAIN result.metrics : j < b => Below(chi(b), chi(j))
            /\ result.best_chi = chi(b)

\* three records, the last two share the minimal score and the first is
\* worse: the best index is 1
C22_Witness ==
    /\ outcome = "result"
    /\ Size(result.metrics) = 3
    /\ result.metrics[1].chi_value = result.metrics[2].chi_value
    /\ Below(result.metrics[1].chi_value, result.metrics[0].chi_value)
    /\ result.best_index = 1

\* the raw metrics of a table, without the scores
RawOf(table) == [i \in DOMAIN table |-> [table[i] EXCEPT !.chi_value = RatZero]]

\* C23: for the candidates (100, 0.5, 2.0, 1.0, 50), (200, 0.8, 1.0, 0.5, 80)
\* and (150, 0.2, 3.0, 2.0, 20) the column maxima are (200, 0.8, 3.0, 2.0,
\* 80), the scores are -7/12, -29/12 and 3/4, and the best index is 1.
C23_WorkedExample ==
    /\ (pc = "agg_score" /\ metrics = ExampleTable) =>
           maxima = [max_ct |-> 200000, max_op_domain_ratio |-> 800,
                     max_clearance_ars |-> 3000, max_clearance_vac |-> 2000,
                     max_bbr |-> 80000]
    /\ (outcome = "result" /\ RawOf(result.metrics) = ExampleTable) =>
           /\ result.metrics[0].chi_value = [n |-> 0 - 7, d |-> 12]
           /\ result.metrics[1].chi_value = [n |-> 0 - 29, d |-> 12]
           /\ result.metrics[2].chi_value = [n |-> 3, d |-> 4]
           /\ result.best_index = 1
           /\ result.best_chi = [n |-> 0 - 29, d |-> 12]

\* the three candidates have been scored and the result returned
C23_Witness ==
    /\ outcome = "result"
    /\ RawOf(result.metrics) = ExampleTable
    /\ maxima.max_ct = 200000
    /\ result.best_index = 1


(***************************************************************************)
(* The empty candidate sequence, checked under Spec.                       *)
(***************************************************************************)
\* C24: with an empty candidate sequence evaluate_fom_metrics returns the
\* no-result value and nothing else happens: no context and no worker thread
\* is created, the work index is not touched, no metric computation is
\* invoked, and the call does not end in an exception.
C24_EmptyShortCircuits ==
    gate_designs = << >> =>
        /\ pc \in {"entry", "returned"}
        /\ pc = "returned" => outcome = "nullopt"
        /\ pc = "entry" => outcome = "pending"
        /\ proc = "running" /\ exception = NoException
        /\ thread_count = 0 /\ contexts = << >>
        /\ spawned = 0 /\ Born = {}
        /\ next_index = 0
        /\ call_count = << >> /\ write_count = << >> /\ metrics = << >>
        /\ result = NoResult

\* the call with no candidates has returned
C24_Witness ==
    /\ gate_designs = << >>
    /\ pc = "returned"
    /\ outcome = "nullopt"


(***************************************************************************)
(* The work index next_index, checked under Spec.                          *)
(***************************************************************************)
\* worker t takes its step of line 297: it leaves the position "claim"
ClaimStepOf(t) == wpc[t] = "claim" /\ wpc'[t] # "claim"

\* what a step may do to next_index and to the loops of the workers
IndexStep ==
    /\ next_index' >= next_index
    /\ next_index' # next_index => \E t \in Workers : ClaimStepOf(t)
    /\ \A t \in Workers :
           /\ ClaimStepOf(t) =>
                  /\ next_index' = next_index + 1
                  /\ wpc'[t] = "done" <=> next_index >= total_layouts
                  /\ wpc'[t] = "compute" <=> next_index < total_layouts
                  /\ wpc'[t] = "compute" => widx'[t] = next_index
           /\ (wpc[t] # "done" /\ wpc'[t] = "done") => ClaimStepOf(t)
           /\ wpc[t] = "done" => wpc'[t] = "done"

\* C29: next_index starts at 0, every claim adds exactly 1 to it whether it
\* obtains an index or not, and it never decreases; a claim is exhausted
\* exactly when the value before the increment is >= N; a worker leaves its
\* loop by one exhausted claim and claims nothing afterwards, so that after a
\* concurrent evaluation without a failure next_index = N + W.
C29_IndexCountsEveryClaim ==
    /\ [](Born = {} => next_index = 0)
    /\ [][IndexStep]_vars
    /\ []((ConcurrentPath /\ outcome = "result" /\ failed = {}) =>
              /\ next_index = total_layouts + thread_count
              /\ \A t \in 0 .. (thread_count - 1) : wpc[t] = "done")

\* two workers have shared three indices and the result is returned
C29_Witness ==
    /\ outcome = "result"
    /\ failed = {}
    /\ thread_count = 2
    /\ total_layouts = 3
    /\ next_index = 5
    /\ wpc[0] = "done" /\ wpc[1] = "done"


(***************************************************************************)
(* The records of the table after they are stored, checked under Spec.     *)
(***************************************************************************)
\* the table of the call: metrics until line 402 moves it into the result
TableNow == IF outcome = "result" THEN result.metrics ELSE metrics

\* the records a metric computation has stored
Stored == {i \in Indices : i \in DOMAIN write_count /\ write_count[i] >= 1}

\* this step is the one of the scoring loop, lines 370-414
ScoringStep == pc = "agg_score" /\ pc' = "returned"

\* C28: each record of the table is written exactly once, by exactly one
\* worker, and never modified afterwards: once the metric computation for
\* candidate i has stored its record, no later step of the evaluation (another
\* worker, the progress consumer, the aggregation) changes any field of it.
C28_RecordNeverModified ==
    /\ [](\A i \in DOMAIN write_count : write_count[i] <= 1)
    /\ [][\A i \in Stored :
              (i \in DOMAIN TableNow /\ i \in DOMAIN TableNow') =>
                  TableNow'[i] = TableNow[i]]_vars

\* C28 as amended: the five raw metrics of a record are written by exactly one
\* metric computation and never modified afterwards by a worker, the progress
\* consumer or the aggregation; the score field of a stored record is changed
\* by the scoring loop of the calling thread only.
C28_RawMetricsNeverModified ==
    /\ [](\A i \in DOMAIN write_count : write_count[i] <= 1)
    /\ [](outcome = "result" => \A i \in Indices : write_count[i] = 1)
    /\ [][\A i \in Stored :
              (i \in DOMAIN TableNow /\ i \in DOMAIN TableNow') =>
                  /\ RawOf(TableNow')[i] = RawOf(TableNow)[i]
                  /\ TableNow'[i].chi_value # TableNow[i].chi_value => ScoringStep]_vars

\* three workers have stored three records, and the scoring loop has given
\* the first of them a score other than the 0 it was stored with
C28_Witness ==
    /\ outcome = "result"
    /\ thread_count = 3
    /\ \A i \in Indices : write_count[i] = 1
    /\ result.metrics[0].chi_value # RatZero
    /\ RawOf(result.metrics)[0] = compute_with_context(initialize_context, LayoutAt(0))


(***************************************************************************)
(* The reports of compute_fom and of the batch driver, checked under       *)
(* SpecCallers.                                                            *)
(***************************************************************************)
\* a call of compute_fom, as opposed to a run of the batch driver
InComputeFom == drv_pc \in {"cf_entry", "cf_evaluating", "cf_best", "cf_returned", "cf_unwound"}
InBatch == drv_pc \in {"b_loop", "b_evaluating", "b_done", "b_terminated"}

\* the header row and nothing else
HeaderOnly ==
    <<<<"index", "critical_temperature_K", "operational_domain_ratio",
        "defect_clearance_arsenic_nm", "defect_clearance_vacancy_nm",
        "band_bending_resilience_mV", "chi">>>>

\* C25: compute_fom called with no candidates returns the no-result value;
\* when persistence was requested each of the two reports, the full table and
\* the best-only one, is written with the header row and no data row (in a
\* file system that lets it be created), and when persistence was not
\* requested no report is written.  evaluate_fom_metrics is not called.
C25_EmptyReportsHeaderOnly ==
    (InComputeFom /\ gate_designs = << >>) =>
        /\ pc = "idle"
        /\ table_file \in {NoFile, HeaderOnly}
        /\ best_file \in {NoFile, HeaderOnly}
        /\ drv_pc = "cf_returned" =>
               /\ drv_outcome = [kind |-> "nullopt", index |-> NoIndex]
               /\ ~save_report => table_file = NoFile /\ best_file = NoFile
               /\ (save_report /\ fs.open_full) => table_file = HeaderOnly
               /\ (save_report /\ fs.open_best) => best_file = HeaderOnly
        /\ (drv_pc # "cf_entry" /\ (~save_report \/ fs.mkdir = "ok")) =>
               drv_pc = "cf_returned"

\* no candidates, persistence requested: both reports hold the header only
C25_Witness ==
    /\ gate_designs = << >>
    /\ save_report
    /\ drv_pc = "cf_returned"
    /\ drv_outcome.kind = "nullopt"
    /\ table_file = HeaderOnly
    /\ best_file = HeaderOnly

\* the message is on the console
Reported(msg) == \E k \in 1 .. Len(console) : console[k] = msg

\* C26: a report target that cannot be opened or created does not invalidate
\* the result of compute_fom: the evaluation result is left as computed, the
\* best index is still returned, the best-only report is attempted although
\* the full table failed, and the failure is reported on the console.
C26_ReportFailureIsolated ==
    (/\ drv_pc \in {"cf_returned", "cf_unwound"}
     /\ outcome = "result"
     /\ save_report
     /\ fs # FsFine) =>
        /\ result = SequentialResult(gate_designs)
        /\ drv_outcome = [kind |-> "index", index |-> result.best_index]
        /\ ~fs.open_full => Reported("Failed to write FoM report")
        /\ ~fs.open_best => Reported("Failed to write best FoM report")
        /\ fs.open_best => best_file # NoFile

\* the gate at position g had its evaluation fail: a metric routine threw
FailedGate(g) ==
    /\ groups[g + 1].known
    /\ \E k \in 1 .. Len(groups[g + 1].layouts) : MetricThrows(groups[g + 1].layouts[k])

\* the rows of a file that belong to gate g, the header row aside
RowsOfGate(file, g) ==
    LET OfGate(row) == row[1] = g
    IN  SelectSeq(Tail(file), OfGate)

\* the run of the batch driver is over
BatchEnded ==
    \/ drv_pc \in {"b_done", "b_terminated"}
    \/ drv_pc = "b_evaluating" /\ proc = "aborted"

\* C27: in a batch run over several gates the failed evaluation of one gate
\* does not keep the gates after it from being evaluated, and neither file
\* gets a row for the gate that failed.
C27_BatchIsolation ==
    InBatch =>
        /\ BatchEnded => group_i + 1 >= Len(groups)
        /\ \A g \in 0 .. (Len(groups) - 1) :
               FailedGate(g) =>
                   /\ RowsOfGate(table_file, g) = << >>
                   /\ RowsOfGate(best_file, g) = << >>

\* the row holds index i and the values of the record in the order index,
\* critical temperature, operational domain ratio, arsenic clearance, vacancy
\* clearance, band bending resilience, score, printed with six decimals
IsRowOf(row, i, entry) ==
    /\ Len(row) = 7
    /\ row[1] = i
    /\ row[2] = entry.critical_temperature * 1000
    /\ row[3] = entry.operational_domain_ratio * 1000
    /\ row[4] = entry.defect_clearance_arsenic * 1000
    /\ row[5] = entry.defect_clearance_vacancy * 1000
    /\ row[6] = entry.band_bending_resilience_mV * 1000
    /\ 2 * Abs(row[7] * entry.chi_value.d - entry.chi_value.n * 1000000)
           <= entry.chi_value.d

\* the gate at position g was evaluated, with this result
EvaluatedGate(g) == groups[g + 1].known /\ ~FailedGate(g)
ResultOfGate(g) == SequentialResult(groups[g + 1].layouts)

\* C30: when persistence is requested for a non-empty evaluation the full
\* report holds the header and then exactly N rows in ascending index order,
\* row i with index i, the five raw metrics of record i and its score in that
\* column order, and the best-only report holds the header and exactly one
\* row, that of the best index; the batch driver writes N table rows and
\* exactly one best-only row, that of the best index, per evaluated gate.
C30_ReportRows ==
    /\ (drv_pc = "cf_returned" /\ save_report /\ outcome = "result") =>
           /\ fs.open_full =>
                  /\ Len(table_file) = total_layouts + 1
                  /\ <<table_file[1]>> = HeaderOnly
                  /\ \A i \in Indices : IsRowOf(table_file[i + 2], i, result.metrics[i])
           /\ fs.open_best =>
                  /\ Len(best_file) = 2
                  /\ <<best_file[1]>> = HeaderOnly
                  /\ IsRowOf(best_file[2], result.best_index,
                             result.metrics[result.best_index])
    /\ drv_pc \in {"b_loop", "b_done"} =>
           \A g \in 0 .. (group_i - 1) :
               LET rows == RowsOfGate(table_file, g)
                   best == RowsOfGate(best_file, g)
                   n    == Len(groups[g + 1].layouts)
                   ev   == ResultOfGate(g)
               IN  IF EvaluatedGate(g)
                   THEN /\ Len(rows) = n
                        /\ \A i \in 0 .. (n - 1) :
                               IsRowOf(SubSeq(rows[i + 1], 3, 9), i, ev.metrics[i])
                        /\ Len(best) = 1
                        /\ IsRowOf(SubSeq(best[1], 3, 9), ev.best_index,
                                   ev.metrics[ev.best_index])
                   ELSE rows = << >> /\ best = << >>

\* three candidates, both reports written: four rows and two rows, the
\* second candidate is the best
C30_Witness ==
    /\ drv_pc = "cf_returned"
    /\ save_report
    /\ outcome = "result"
    /\ total_layouts = 3
    /\ Len(table_file) = 4
    /\ table_file[3][1] = 1
    /\ table_file[3][2] = 200000000
    /\ Len(best_file) = 2
    /\ best_file[2] = table_file[result.best_index + 2]
    /\ result.best_index = 1


(***************************************************************************)
(* Degenerate tables and the consistency of the result, checked under      *)
(* SpecAggregate.                                                          *)
(***************************************************************************)
\* every raw metric of every record of the table is 0
AllZero(table) ==
    \A i \in DOMAIN table : \A col \in Columns : table[i][col[1]] = 0

\* C31: when every raw metric of every record is 0 the five column maxima
\* are 0, every score is 0, the best index is 0 and the best score is 0; for
\* no table of N > 0 records is the best score returned the initial value,
\* the largest double.
C31_ZeroTableScoresZero ==
    /\ (pc = "agg_score" /\ AllZero(metrics)) => maxima = NoMaxima
    /\ outcome = "result" =>
           /\ Size(result.metrics) = total_layouts /\ total_layouts > 0
           /\ result.best_chi # [n |-> 1, d |-> 0]
           /\ result.best_chi.d > 0
           /\ AllZero(result.metrics) =>
                  /\ \A i \in DOMAIN result.metrics :
                         result.metrics[i].chi_value = [n |-> 0, d |-> 1]
                  /\ result.best_index = 0
                  /\ result.best_chi = [n |-> 0, d |-> 1]

\* three records of zeros have been scored
C31_Witness ==
    /\ outcome = "result"
    /\ Size(result.metrics) = 3
    /\ AllZero(result.metrics)
    /\ maxima = NoMaxima
    /\ result.best_index = 0
    /\ result.best_chi = RatZero


\* score a is not above score b
AtMost(a, b) == a.n * b.d <= b.n * a.d

\* C32: a result returned for N > 0 is consistent with itself: best_index is
\* below N, best_chi is the chi_value stored in metrics[best_index], and
\* best_chi is not above the chi_value of any record of the table.
C32_ResultConsistent ==
    outcome = "result" =>
        /\ total_layouts > 0
        /\ result.best_index \in 0 .. (total_layouts - 1)
        /\ DOMAIN result.metrics = 0 .. (total_layouts - 1)
        /\ result.best_chi = result.metrics[result.best_index].chi_value
        /\ \A i \in DOMAIN result.metrics :
               /\ result.metrics[i].chi_value.d > 0
               /\ AtMost(result.best_chi, result.metrics[i].chi_value)

\* three records with three different scores, the smallest of them last
C32_Witness ==
    /\ outcome = "result"
    /\ Size(result.metrics) = 3
    /\ result.best_index = 2
    /\ Below(result.metrics[2].chi_value, result.metrics[1].chi_value)
    /\ Below(result.metrics[1].chi_value, result.metrics[0].chi_value)
    /\ result.best_chi = result.metrics[2].chi_value


(***************************************************************************)
(* What verbose_console has an effect on, checked under Spec.              *)
(***************************************************************************)
\* a step of the progress output: a line is printed, an index is pushed or
\* popped, the consumer copies a record or moves the mutex
ProgressStep ==
    \/ stdout_lines' # stdout_lines
    \/ progress_queue' # progress_queue
    \/ progress_mutex' # progress_mutex
    \/ printed' # printed
    \/ c_entry' # c_entry
    \/ cv_waiting' # cv_waiting

\* C33: verbose_console has an effect on the console output only.  The
\* worker count and the result returned (table, best index, best score) are
\* functions of the candidates, the machine and the environment in which
\* verbose_console does not occur, and no step of the progress output changes
\* the table, the maxima or what is returned.
C33_VerboseOnlyPrints ==
    /\ [](SetupDone =>
              thread_count = ThreadCount(hardware_concurrency, env_value, total_layouts))
    /\ [](outcome = "result" =>
              /\ result.metrics = SequentialResult(gate_designs).metrics
              /\ result.best_index = SequentialResult(gate_designs).best_index
              /\ result.best_chi = SequentialResult(gate_designs).best_chi)
    /\ [](~verbose_console => \A i \in DOMAIN stdout_lines : stdout_lines[i] = << >>)
    /\ [][(SetupDone /\ ProgressStep) =>
              UNCHANGED <<metrics, maxima, result, outcome, exception, thread_count,
                          contexts, next_index>>]_vars

\* a verbose evaluation with two workers has printed its lines and returned
\* the table of a quiet one
C33_Witness ==
    /\ verbose_console
    /\ thread_count = 2
    /\ total_layouts = 3
    /\ outcome = "result"
    /\ \A i \in Indices : Len(stdout_lines[i]) = 1
    /\ result = SequentialResult(gate_designs)


(***************************************************************************)
(* What the aggregation changes, checked under SpecAggregate.              *)
(***************************************************************************)
\* C34: the aggregation changes the score field only: the maxima are
\* computed without a change to the table, and the table returned has the
\* records of the table that was scored, as many and in the same order, each
\* with the five raw metrics it had.
C34_AggregationKeepsRawMetrics ==
    /\ [][pc = "agg_max" => metrics' = metrics]_vars
    /\ [][ScoringStep =>
              /\ DOMAIN result'.metrics = DOMAIN metrics
              /\ \A i \in DOMAIN metrics : \A col \in Columns :
                     result'.metrics[i][col[1]] = metrics[i][col[1]]]_vars

\* a table whose first and last record differ has been scored, and the first
\* record has a score other than the 0 it came with
C34_Witness ==
    /\ outcome = "result"
    /\ Size(result.metrics) = 3
    /\ result.metrics[0].critical_temperature = 3000
    /\ result.metrics[2].critical_temperature = 1000
    /\ result.metrics[0].chi_value # RatZero


(***************************************************************************)
(* The record the consumer prints, checked under Spec.                     *)
(***************************************************************************)
\* the record the metric computation of candidate i stores when it completes
Completed(i) == compute_with_context(initialize_context, LayoutAt(i))

\* C35: in the concurrent verbose path the record the consumer prints for an
\* index is a copy taken with progress_mutex held, after the worker pushed the
\* index and so after the computation of that candidate completed: its five
\* raw metrics are the completed metrics of the candidate, never those of a
\* default or half-written record.
C35_PrintsCompletedRecord ==
    (ConcurrentPath /\ verbose_console) =>
        /\ pc = "c_copy" =>
               /\ progress_mutex = "main"
               /\ enq_pos[c_idx] > 0
               /\ Computed(c_idx) /\ c_idx \notin failed
               /\ metrics[c_idx] = Completed(c_idx)
        /\ pc = "c_print" =>
               /\ c_entry = Completed(c_idx)
               /\ c_entry # DefaultMetrics
        /\ \A i \in DOMAIN stdout_lines : \A k \in 1 .. Len(stdout_lines[i]) :
               /\ stdout_lines[i][k] = Completed(i)
               /\ stdout_lines[i][k] # PartialMetrics(LayoutAt(i))

\* the consumer has printed the record of candidate 1 while a worker is
\* still computing candidate 0
C35_Witness ==
    /\ ConcurrentPath /\ verbose_console
    /\ Len(stdout_lines[1]) = 1
    /\ stdout_lines[1][1] = Completed(1)
    /\ \E t \in Born : wpc[t] = "compute" /\ widx[t] = 0
    /\ metrics[0] = DefaultMetrics


(***************************************************************************)
(* Bounds of the worker count, checked under SpecThreads.                  *)
(***************************************************************************)
\* C36: for every hardware concurrency (0 included), every override and
\* every N >= 1 the worker count is at least 1 and at most min(N, 128), and
\* there are as many contexts as workers: the sequential path has the
\* context it uses, and no worker is created beyond the number of candidates.
C36_ThreadCountWithinBounds ==
    /\ pc \in {"threads", "contexts"} =>
           /\ total_layouts >= 1
           /\ thread_count >= 1
           /\ thread_count <= total_layouts
           /\ thread_count <= 128
    /\ pc = "contexts" =>
           /\ DOMAIN contexts = 0 .. (thread_count - 1)
           /\ 0 \in DOMAIN contexts
           /\ \A t \in DOMAIN contexts : contexts[t] = initialize_context

\* 200 hardware threads, 150 layouts and an override that is not a number:
\* 128 workers and 128 contexts
C36_Witness ==
    /\ pc = "contexts"
    /\ hardware_concurrency = 200
    /\ total_layouts = 150
    /\ env_value = EnvStr(<<"x">>)
    /\ thread_count = 128
    /\ Cardinality(DOMAIN contexts) = 128


(***************************************************************************)
(* The content of progress_queue, checked under Spec.                      *)
(***************************************************************************)
\* the consumer loop of lines 309-332 has been left
ConsumerLoopLeft == pc = "join" \/ AfterThePath

\* C37: in the concurrent verbose path progress_queue holds, in every
\* reachable state, distinct indices whose computation has completed and
\* whose line has not been printed; the number of items taken for printing
\* plus the length of the queue is never above N; and when the consumer loop
\* is left the queue is empty and exactly N items have been printed.
C37_QueueHoldsCompletedUnprinted ==
    (ConcurrentPath /\ verbose_console) =>
        /\ \A k, l \in 1 .. Len(progress_queue) :
               k # l => progress_queue[k] # progress_queue[l]
        /\ \A k \in 1 .. Len(progress_queue) :
               LET idx == progress_queue[k]
               IN  /\ idx \in Indices
                   /\ call_count[idx] = 1 /\ idx \notin failed
                   /\ \A t \in Born : ~(wpc[t] = "compute" /\ widx[t] = idx)
                   /\ Len(stdout_lines[idx]) = 0
                   /\ pc \in {"c_copy", "c_print"} => idx # c_idx
        /\ printed + Len(progress_queue) <= total_layouts
        /\ printed <= total_layouts
        /\ ConsumerLoopLeft =>
               /\ progress_queue = << >>
               /\ printed = total_layouts
               /\ \A i \in Indices : Len(stdout_lines[i]) = 1

\* two completed indices wait in the queue while the line of a third is
\* being printed
C37_Witness ==
    /\ ConcurrentPath /\ verbose_console
    /\ total_layouts = 3
    /\ Len(progress_queue) = 2
    /\ pc = "c_print"
    /\ printed = 1

=============================================================================
